---- MODULE Spec2Model ----
(***************************************************************************)
(* Kaleidoscope-Testing: the cycle-driven orchestration engine of the      *)
(* Driver / Simulator classes (src/src/Driver.h, src/src/Simulator.h).     *)
(*                                                                         *)
(* The orchestrator object is modelled as a record of its fields; every    *)
(* method is an operator from such a record to the record after the call.  *)
(* A `halted` field stands for the process having been terminated by the   *)
(* abort-on-first-error policy: a halted orchestrator executes nothing.    *)
(* The field `trace` of the record is what a call writes to the output     *)
(* stream: the events of the call, in the order they happened.             *)
(***************************************************************************)
EXTENDS Integers, Sequences, FiniteSets, TLC

\* ------------------------------------------------------------------ bounds

\* Assertion objects a test creates in one run.
MaxAssertions == 2
\* Assertion objects a test creates in a run that also skips time.
MaxTimedAssertions == 1
\* Cycles of one run in which every cycle is a single cycle() call.
MaxCycles == 2
\* Cycles of one run with calls that run several cycles or skip time.
MaxRunCycles == 4
\* Errors recorded in one run.
MaxErrors == 1
\* Reports the firmware emits in one scan cycle.
MaxReports == 2
\* Largest time interval / absolute time a caller passes.
MaxDeltaT == 7
\* Test scopes open at a time.
MaxOpenTests == 2
\* Largest num_taps and tap_interval_cycles a caller passes.
MaxTaps == 3
MaxTapInterval == 2

\* ------------------------------------------------------- program constants

\* Default of the constructor's cycle_duration parameter.
DefaultCycleDuration == 5

\* -------------------------------------------------------------- data types

KEYBOARD == "KeyboardReport"
MOUSE == "MouseReport"
ABSOLUTE_MOUSE == "AbsoluteMouseReport"

\* The report types a Simulator has an assertion queue bundle for.
Channels == {KEYBOARD, MOUSE, ABSOLUTE_MOUSE}

\* A report the firmware emits: its channel kind and, of its payload, what
\* the modelled assertions query.
\* Only a keyboard report has keycodes; activity is the set of values its
\* "any keycode active" query takes.
ReportsOf(activity) ==
  { [ch |-> KEYBOARD, any_key_active |-> k] : k \in activity }
    \cup { [ch |-> c, any_key_active |-> FALSE] : c \in {MOUSE, ABSOLUTE_MOUSE} }

Reports == ReportsOf({TRUE})

NoReport == [ch |-> "none", any_key_active |-> FALSE]

RECURSIVE SeqsUpTo(_, _)
\* All sequences over S of length at most n.
SeqsUpTo(S, n) ==
  IF n = 0 THEN { <<>> }
  ELSE LET shorter == SeqsUpTo(S, n - 1)
       IN shorter \cup { Append(q, x) : q \in { r \in shorter : Len(r) = n - 1 }, x \in S }

\* What the firmware scan can emit in one cycle: the reports, in emission order.
Scans == SeqsUpTo(Reports, MaxReports)

\* The key matrix positions used.
Keys == { <<1, 2>> }

\* An assertion object: its identity and the leaf predicate it evaluates.
Assertion(id, pred, arg) == [id |-> id, pred |-> pred, arg |-> arg]

\* A pair of queues of one report type.
EmptyBundle == [queued |-> <<>>, permanent |-> <<>>]

\* One event of the history: what happened (e), on which channel (ch: a report
\* type, "cycle" or "none"), to which list (kind: "queued", "permanent",
\* "direct" or "none"), to which assertion (id, 0 for none), with which
\* result (ok).
Ev(e, ch, kind, id, ok) == [e |-> e, ch |-> ch, kind |-> kind, id |-> id, ok |-> ok]

Log(s, e, ch, kind, id, ok) ==
  [s EXCEPT !.trace = Append(@, Ev(e, ch, kind, id, ok))]

\* ------------------------------------------------------------------- state

VARIABLES
  debug_, cycle_duration_, abort_on_first_error_,
  assertions_passed_, n_reports_in_cycle_, cycle_id_, time_, error_count_,
  error_if_report_without_queued_assertions_,
  keyboard_report_assertions_, mouse_report_assertions_,
  absolute_mouse_report_assertions_,
  queued_cycle_assertions_, permanent_cycle_assertions_,
  key_state, halted, next_id,
  aborts_on_every_error,
  tests,
  run

vars ==
  << debug_, cycle_duration_, abort_on_first_error_,
     assertions_passed_, n_reports_in_cycle_, cycle_id_, time_, error_count_,
     error_if_report_without_queued_assertions_,
     keyboard_report_assertions_, mouse_report_assertions_,
     absolute_mouse_report_assertions_,
     queued_cycle_assertions_, permanent_cycle_assertions_,
     key_state, halted, next_id, aborts_on_every_error, tests, run >>

\* aborts_on_every_error is no field of the orchestrator: it is what the build
\* does with abort_on_first_error_.  The code that terminates the run is not in
\* the headers.  A failed assertion terminates it at its report; whether the
\* errors that no assertion raised terminate it too ("testing is aborted after
\* the first error occurred") is fixed by the build, and both builds are runs
\* of the model.

\* tests are the Test objects alive, the innermost scope last; they are kept
\* with the orchestrator they point to.

\* run is the run loop the orchestrator is in (runRealtime or
\* runRemoteControlled) and the position in it: its locals, kept with the
\* orchestrator that executes it.

\* The orchestrator object as one record, at the start of a call: nothing is
\* written yet.
Self ==
  [ debug_ |-> debug_,
    cycle_duration_ |-> cycle_duration_,
    abort_on_first_error_ |-> abort_on_first_error_,
    assertions_passed_ |-> assertions_passed_,
    n_reports_in_cycle_ |-> n_reports_in_cycle_,
    cycle_id_ |-> cycle_id_,
    time_ |-> time_,
    error_count_ |-> error_count_,
    error_if_report_without_queued_assertions_ |->
      error_if_report_without_queued_assertions_,
    keyboard_report_assertions_ |-> keyboard_report_assertions_,
    mouse_report_assertions_ |-> mouse_report_assertions_,
    absolute_mouse_report_assertions_ |-> absolute_mouse_report_assertions_,
    queued_cycle_assertions_ |-> queued_cycle_assertions_,
    permanent_cycle_assertions_ |-> permanent_cycle_assertions_,
    key_state |-> key_state,
    halted |-> halted,
    next_id |-> next_id,
    aborts_on_every_error |-> aborts_on_every_error,
    tests |-> tests,
    run |-> run,
    trace |-> << >> ]

\* The orchestrator object becomes s.
Becomes(s) ==
  /\ debug_' = s.debug_
  /\ cycle_duration_' = s.cycle_duration_
  /\ abort_on_first_error_' = s.abort_on_first_error_
  /\ assertions_passed_' = s.assertions_passed_
  /\ n_reports_in_cycle_' = s.n_reports_in_cycle_
  /\ cycle_id_' = s.cycle_id_
  /\ time_' = s.time_
  /\ error_count_' = s.error_count_
  /\ error_if_report_without_queued_assertions_' =
       s.error_if_report_without_queued_assertions_
  /\ keyboard_report_assertions_' = s.keyboard_report_assertions_
  /\ mouse_report_assertions_' = s.mouse_report_assertions_
  /\ absolute_mouse_report_assertions_' = s.absolute_mouse_report_assertions_
  /\ queued_cycle_assertions_' = s.queued_cycle_assertions_
  /\ permanent_cycle_assertions_' = s.permanent_cycle_assertions_
  /\ key_state' = s.key_state
  /\ halted' = s.halted
  /\ next_id' = s.next_id
  /\ aborts_on_every_error' = s.aborts_on_every_error
  /\ tests' = s.tests
  /\ run' = s.run

\* ------------------------------------------------------------ the queues

\* A dispatch in which the mouse overload hands out the keyboard bundle.
getAssertionQueueBundleMouseAsKeyboard(ch) ==
  CASE ch = KEYBOARD -> "keyboard_report_assertions_"
    [] ch = MOUSE -> "keyboard_report_assertions_"
    [] ch = ABSOLUTE_MOUSE -> "absolute_mouse_report_assertions_"

\* The bundle a report type is dispatched to (a reference to a member).
getAssertionQueueBundle(ch) ==
  CASE ch = KEYBOARD -> "keyboard_report_assertions_"
    [] ch = MOUSE -> "mouse_report_assertions_"
    [] ch = ABSOLUTE_MOUSE -> "absolute_mouse_report_assertions_"

\* A getter that hands out the wrong member.
queuedCycleAssertionsOfPermanent == "permanent_cycle_assertions_"

queuedCycleAssertions == "queued_cycle_assertions_"

\* A getter of the permanent list that hands out the queued one.
permanentCycleAssertionsOfQueued == "queued_cycle_assertions_"

permanentCycleAssertions == "permanent_cycle_assertions_"

\* AssertionQueue: add appends at the back, pop_front removes the head.
add(queue, assertion) == Append(queue, assertion)

pop_front(queue) == Tail(queue)

empty(queue) == queue = <<>>

\* ------------------------------------------------- setters and getters

setErrorIfReportWithoutQueuedAssertions(s, state) ==
  [s EXCEPT !.error_if_report_without_queued_assertions_ = state]

\* A getter that never reports the policy as enabled.
getErrorIfReportWithoutQueuedAssertionsNever(s) == FALSE

getErrorIfReportWithoutQueuedAssertions(s) ==
  s.error_if_report_without_queued_assertions_

setDebug(s, state) == [s EXCEPT !.debug_ = state]

\* A setter that stores nothing.
setCycleDurationDropped(s, dt) == s

setCycleDuration(s, dt) == [s EXCEPT !.cycle_duration_ = dt]

\* A getter that hands out the constructor's default.
getCycleDurationDefault(s) == DefaultCycleDuration

getCycleDuration(s) == s.cycle_duration_

\* ----------------------------------------------------- errors, evaluation

\* Sequencing: v is computed once, then F is applied to its value.
Bind(v, F(_)) == CHOOSE result \in { F(x) : x \in {v} } : TRUE

\* An error() that hands out the error stream without counting.
errorNotCounted(s) == Log(s, "error", "none", "none", 0, FALSE)

\* error(): counts the error and hands out the error stream.
error(s) ==
  Log([s EXCEPT !.error_count_ = @ + 1], "error", "none", "none", 0, FALSE)

\* The run is terminated.
aborted(s) == [s EXCEPT !.halted = TRUE]

\* ErrorStream::~ErrorStream(): the error message is written.
closeErrorStream(s) ==
  IF s.abort_on_first_error_ /\ s.aborts_on_every_error THEN aborted(s) ELSE s

\* this->error() << message;
raiseError(s) == closeErrorStream(error(s))

\* Leaf predicates of which AnyKeycodeActive negates the report's answer.
evalInternalNoKeycodeActive(s, assertion, r) ==
  CASE assertion.pred = "pass" -> TRUE
    [] assertion.pred = "fail" -> FALSE
    [] assertion.pred = "AnyKeycodeActive" -> ~r.any_key_active
    [] assertion.pred = "ReportNthInCycle" -> s.n_reports_in_cycle_ = assertion.arg

\* Leaf predicates in which "report n. in cycle" counts from 1.
evalInternalNthFromOne(s, assertion, r) ==
  CASE assertion.pred = "pass" -> TRUE
    [] assertion.pred = "fail" -> FALSE
    [] assertion.pred = "AnyKeycodeActive" -> r.any_key_active
    [] assertion.pred = "ReportNthInCycle" -> s.n_reports_in_cycle_ = assertion.arg - 1

\* The leaf predicates: evalInternal() of the assertion classes.  r is the
\* report being dispatched (NoReport outside a dispatch).
evalInternal(s, assertion, r) ==
  CASE assertion.pred = "pass" -> TRUE
    [] assertion.pred = "fail" -> FALSE
    [] assertion.pred = "AnyKeycodeActive" -> r.any_key_active
    [] assertion.pred = "ReportNthInCycle" -> s.n_reports_in_cycle_ = assertion.arg

\* Assertion_::report(): describes the assertion; a failed one is recorded as
\* an error, and with abort-on-first-error the run is terminated right after
\* that single failure was reported.
report(s, assertion, assertion_passed) ==
  LET described == Log(s, "described", "none", "none", assertion.id, assertion_passed)
  IN IF assertion_passed THEN described
     ELSE IF s.abort_on_first_error_
          THEN aborted(raiseError(described))
          ELSE raiseError(described)

\* A loop body that reports with && in place of ||: a failed assertion is
\* reported in debug mode only.
evaluateOneReportedInDebugOnly(s, assertion, r, ch, kind) ==
  LET assertion_passed == evalInternal(s, assertion, r)
  IN Bind(Log(s, "eval", ch, kind, assertion.id, assertion_passed),
       LAMBDA evaluated :
         Bind(IF ~assertion_passed /\ s.debug_
              THEN report(evaluated, assertion, assertion_passed)
              ELSE evaluated,
           LAMBDA reported :
             IF reported.halted THEN reported
             ELSE [reported EXCEPT !.assertions_passed_ = @ /\ assertion_passed]))

\* A loop body that assigns the flag with = in place of &=.
evaluateOneFlagAssigned(s, assertion, r, ch, kind) ==
  LET assertion_passed == evalInternal(s, assertion, r)
  IN Bind(Log(s, "eval", ch, kind, assertion.id, assertion_passed),
       LAMBDA evaluated :
         Bind(IF ~assertion_passed \/ s.debug_
              THEN report(evaluated, assertion, assertion_passed)
              ELSE evaluated,
           LAMBDA reported :
             IF reported.halted THEN reported
             ELSE [reported EXCEPT !.assertions_passed_ = assertion_passed]))

\* One pass of the loop body of evaluateAssertionsInternal: eval(), report()
\* if the assertion failed or debug is on, then the pass/fail flag.
evaluateOne(s, assertion, r, ch, kind) ==
  LET assertion_passed == evalInternal(s, assertion, r)
  IN Bind(Log(s, "eval", ch, kind, assertion.id, assertion_passed),
       LAMBDA evaluated :
         Bind(IF ~assertion_passed \/ s.debug_
              THEN report(evaluated, assertion, assertion_passed)
              ELSE evaluated,
           LAMBDA reported :
             IF reported.halted THEN reported
             ELSE [reported EXCEPT !.assertions_passed_ = @ /\ assertion_passed]))

RECURSIVE evaluateAssertionsInternal(_, _, _, _, _)
\* A loop that leaves the container at the first failed assertion.
evaluateAssertionsUntilFailure(s, assertions, r, ch, kind) ==
  IF empty(assertions) \/ s.halted THEN s
  ELSE Bind(evaluateOne(s, Head(assertions), r, ch, kind),
         LAMBDA next :
           IF evalInternal(s, Head(assertions), r)
           THEN evaluateAssertionsInternal(next, Tail(assertions), r, ch, kind)
           ELSE next)

\* evaluateAssertionsInternal(assertions): every assertion of the container,
\* in order.  A terminated process evaluates nothing more.
evaluateAssertionsInternal(s, assertions, r, ch, kind) ==
  IF empty(assertions) \/ s.halted THEN s
  ELSE Bind(evaluateOne(s, Head(assertions), r, ch, kind),
         LAMBDA next :
           evaluateAssertionsInternal(next, Tail(assertions), r, ch, kind))

\* ----------------------------------------------------------- one cycle

\* The queued part of a report's dispatch: the head of the channel's queued
\* list is evaluated against the report and then removed; without one, the
\* report is an error under the error-if-report-without-queued-assertions
\* policy.
dispatchQueued(s, r) ==
  LET bundle == getAssertionQueueBundle(r.ch)
      queued == s[bundle].queued
  IN IF ~empty(queued)
     THEN Bind(evaluateAssertionsInternal(s, <<Head(queued)>>, r, r.ch, "queued"),
            LAMBDA evaluated :
              IF evaluated.halted THEN evaluated
              ELSE Log([evaluated EXCEPT ![bundle].queued = pop_front(@)],
                       "pop", r.ch, "queued", Head(queued).id, TRUE))
     ELSE IF getErrorIfReportWithoutQueuedAssertions(s)
          THEN raiseError(s)
          ELSE s

\* The permanent part: every permanent assertion of the channel is evaluated
\* against the report.
dispatchPermanent(s, r) ==
  evaluateAssertionsInternal(
    s, s[getAssertionQueueBundle(r.ch)].permanent, r, r.ch, "permanent")

\* A report was seen in this cycle.
countReport(s) ==
  IF s.halted THEN s ELSE [s EXCEPT !.n_reports_in_cycle_ = @ + 1]

\* A report callback that dispatches whatever the mode.
processReportDispatched(s, r, only_log_reports) ==
  IF s.halted THEN s
  ELSE Bind(Log(s, "report", r.ch, "none", 0, TRUE),
         LAMBDA logged :
           Bind(dispatchQueued(logged, r),
             LAMBDA head_done :
               Bind(dispatchPermanent(head_done, r),
                 LAMBDA dispatched : countReport(dispatched))))

\* The report callback.  With only_log_reports the report is only logged and
\* counted.
processReport(s, r, only_log_reports) ==
  IF s.halted THEN s
  ELSE Bind(Log(s, "report", r.ch, "none", 0, TRUE),
         LAMBDA logged :
           IF only_log_reports THEN countReport(logged)
           ELSE Bind(dispatchQueued(logged, r),
                  LAMBDA head_done :
                    Bind(dispatchPermanent(head_done, r),
                      LAMBDA dispatched : countReport(dispatched))))

RECURSIVE scan(_, _, _)
\* The firmware scan of one cycle: it calls back once per emitted report,
\* synchronously and in emission order.
scan(s, reports, only_log_reports) ==
  IF reports = <<>> THEN s
  ELSE Bind(processReport(s, Head(reports), only_log_reports),
         LAMBDA next : scan(next, Tail(reports), only_log_reports))

\* The queued part of the end of a cycle: the head of the queued cycle
\* assertions is evaluated and removed.
endOfCycleQueued(s) ==
  LET queued == s[queuedCycleAssertions]
  IN IF ~empty(queued)
     THEN Bind(evaluateAssertionsInternal(
                 s, <<Head(queued)>>, NoReport, "cycle", "queued"),
            LAMBDA evaluated :
              IF evaluated.halted THEN evaluated
              ELSE Log([evaluated EXCEPT ![queuedCycleAssertions] = pop_front(@)],
                       "pop", "cycle", "queued", Head(queued).id, TRUE))
     ELSE s

\* The end of a cycle: the queued head, then every permanent cycle assertion.
endOfCycle(s) ==
  IF s.halted THEN s
  ELSE Bind(endOfCycleQueued(s),
         LAMBDA head_done :
           evaluateAssertionsInternal(
             head_done, head_done[permanentCycleAssertions], NoReport,
             "cycle", "permanent"))

\* The cycle id and the time advance.
advance(s, only_log_reports) ==
  IF s.halted THEN s
  ELSE Log([s EXCEPT !.cycle_id_ = @ + 1, !.time_ = @ + getCycleDuration(s)],
           "cycle_end", "cycle", "none", 0, ~only_log_reports)

\* cycleInternal(only_log_reports): scan, per-report dispatch, end-of-cycle
\* assertions, then the cycle id and the time advance.  reports is what the
\* firmware emits in this cycle.
cycleInternal(s, reports, only_log_reports) ==
  IF s.halted THEN s
  ELSE Bind(scan(Log([s EXCEPT !.n_reports_in_cycle_ = 0],
                     "cycle", "cycle", "none", 0, ~only_log_reports),
                 reports, only_log_reports),
         LAMBDA scanned :
           IF only_log_reports THEN advance(scanned, only_log_reports)
           ELSE Bind(endOfCycle(scanned),
                  LAMBDA checked : advance(checked, only_log_reports)))

\* ---------------------------------------------------- keys, cycles, time

pressKey(s, key) ==
  Log([s EXCEPT !.key_state = @ \cup {key}], "press", "none", "none", 0, TRUE)

releaseKey(s, key) ==
  Log([s EXCEPT !.key_state = @ \ {key}], "release", "none", "none", 0, TRUE)

\* A tap that runs a cycle while the key is down.
tapKeyWithCycle(s, key) ==
  releaseKey(cycleInternal(pressKey(s, key), << >>, FALSE), key)

\* tapKey: a press followed by a release, no cycle in between.
tapKey(s, key) == releaseKey(pressKey(s, key), key)

\* What the firmware emits in the cycle with the given id of a call that runs
\* several cycles: fw is a finite script, repeated.
scanOf(fw, cycle_id) == fw[(cycle_id % Len(fw)) + 1]

RECURSIVE cyclesLoop(_, _, _, _, _)
\* The loop of cyclesInternal: cycles i .. n-1, each followed by the
\* evaluation of the supplied assertions.
cyclesLoop(s, i, n, cycle_assertion_list, fw) ==
  IF i >= n \/ s.halted THEN s
  ELSE Bind(cycleInternal(s, scanOf(fw, s.cycle_id_), FALSE),
         LAMBDA cycled :
           Bind(evaluateAssertionsInternal(
                  cycled, cycle_assertion_list, NoReport, "none", "direct"),
             LAMBDA next : cyclesLoop(next, i + 1, n, cycle_assertion_list, fw)))

\* cyclesInternal(n, cycle_assertion_list): n full cycles.
cyclesInternal(s, n, cycle_assertion_list, fw) ==
  cyclesLoop(s, 0, n, cycle_assertion_list, fw)

\* A forwarding that hands on one cycle too many.
cyclesOneMore(s, n, assertions, fw) == cyclesInternal(s, n + 1, assertions, fw)

\* cycles(n, assertions...): forwards to cyclesInternal with the assertions as
\* a list.
cycles(s, n, assertions, fw) == cyclesInternal(s, n, assertions, fw)

RECURSIVE multiTapLoop(_, _, _, _, _, _, _)
\* The loop of multiTapKey: taps i .. num_taps-1, each followed by
\* tap_interval_cycles cycles and the evaluation of the optional assertion.
multiTapLoop(s, i, num_taps, key, tap_interval_cycles, after, fw) ==
  IF i >= num_taps \/ s.halted THEN s
  ELSE Bind(tapKey(s, key),
         LAMBDA tapped :
           Bind(cycles(tapped, tap_interval_cycles, <<>>, fw),
             LAMBDA cycled :
               Bind(evaluateAssertionsInternal(
                      cycled, after, NoReport, "none", "direct"),
                 LAMBDA next :
                   multiTapLoop(next, i + 1, num_taps, key,
                                tap_interval_cycles, after, fw))))

\* multiTapKey(num_taps, row, col, tap_interval_cycles, assertion); after is
\* the optional assertion as a list of at most one.
multiTapKey(s, num_taps, key, tap_interval_cycles, after, fw) ==
  multiTapLoop(s, 0, num_taps, key, tap_interval_cycles, after, fw)

\* checkCycleDurationSet: an unset (zero) cycle duration is a configuration
\* error.
checkCycleDurationSet(s) ==
  IF getCycleDuration(s) = 0 THEN raiseError(s) ELSE s

RECURSIVE skipLoop(_, _, _)
\* The loop of skipTimeInternal: log-only cycles until the target time is
\* reached.
skipLoop(s, target, fw) ==
  IF s.time_ >= target \/ s.halted THEN s
  ELSE Bind(cycleInternal(s, scanOf(fw, s.cycle_id_), TRUE),
         LAMBDA next : skipLoop(next, target, fw))

\* skipTimeInternal(delta_t).  Without a cycle duration no cycle can advance
\* the time, and none is run.
skipTimeInternal(s, delta_t, fw) ==
  IF getCycleDuration(s) = 0 THEN s
  ELSE skipLoop(s, s.time_ + delta_t, fw)

advanceTime(s, delta_t, fw) ==
  Bind(checkCycleDurationSet(s),
    LAMBDA checked : skipTimeInternal(checked, delta_t, fw))

cycleTo(s, time, fw) ==
  Bind(checkCycleDurationSet(s),
    LAMBDA checked :
      IF time <= checked.time_ THEN checked
      ELSE skipTimeInternal(checked, time - checked.time_, fw))

\* The lists assertNothingQueued looks at.
allQueues(s) ==
  { s[getAssertionQueueBundle(ch)].queued : ch \in Channels }
    \cup { s[getAssertionQueueBundle(ch)].permanent : ch \in Channels }
    \cup { s[queuedCycleAssertions], s[permanentCycleAssertions] }

\* assertNothingQueued(): an error if any list holds an assertion.
assertNothingQueued(s) ==
  IF \E queue \in allQueues(s) : ~empty(queue) THEN raiseError(s) ELSE s

\* The assertion objects a call creates from the given leaf predicates.
Created(s, preds) ==
  [i \in 1..Len(preds) |-> Assertion(s.next_id + i, preds[i], 0)]

\* add(assertions...): the assertions are appended in the order given.
addAll(queue, assertions) == queue \o assertions

\* cycleExpectReports(assertions...): the assertions are added to the queued
\* keyboard report assertions, one cycle is run, and an error is raised if
\* queued_keyboard_report_assertions_ is not empty.  That name is no member of
\* Simulator, whose keyboard assertions are in keyboard_report_assertions_: it
\* is whatever object a build that accepts the member binds it to, and its
\* content is an input here.
cycleExpectReports(s, preds, reports, queued_keyboard_report_assertions_) ==
  Bind([s EXCEPT ![getAssertionQueueBundle(KEYBOARD)].queued =
                    addAll(@, Created(s, preds)),
                 !.next_id = @ + Len(preds)],
    LAMBDA queued :
      Bind(cycleInternal(queued, reports, FALSE),
        LAMBDA cycled :
          IF cycled.halted THEN cycled
          ELSE IF ~empty(queued_keyboard_report_assertions_)
               THEN raiseError(cycled)
               ELSE cycled))

\* ------------------------------------------------------------ test scopes

\* Test::Test(driver, name): the error count at construction is recorded.
Test(s) ==
  Log([s EXCEPT !.tests = Append(@, [error_count_start_ |-> s.error_count_])],
      "test", "none", "none", 0, TRUE)

\* A newTest that opens no scope.
newTestUnopened(s) == s

\* newTest(name)
newTest(s) == Test(s)

\* Test::~Test(): assertNothingQueued(), then the verdict of the innermost
\* scope: failed if the error count is above the recorded one.
TestDestructor(s) ==
  LET innermost == s.tests[Len(s.tests)]
  IN Bind(assertNothingQueued(s),
       LAMBDA checked :
         IF checked.halted THEN checked
         ELSE Log([checked EXCEPT !.tests = SubSeq(@, 1, Len(@) - 1)],
                  "verdict", "none", "none", 0,
                  ~(checked.error_count_ > innermost.error_count_start_)))

\* ------------------------------------------------------------ the inputs

\* The leaf predicates of the assertions a test creates.
\* -------------------------------------------------------------- run loops

\* No run loop was entered yet.
NoRun ==
  [ loop |-> "none", pc |-> "none", duration |-> 0, input |-> << >>,
    line |-> << >>, lines |-> 0, cycles |-> 0, calls |-> 0 ]

\* runRealtime(duration, cycle_function): the loop is entered.
runRealtime(s, duration) ==
  [s EXCEPT !.run = [NoRun EXCEPT !.loop = "realtime", !.pc = "loop",
                                  !.duration = duration]]

\* The loop goes on while the simulated time has not reached the duration; a
\* duration of zero never ends it.
realtimeGoesOn(s) == s.run.duration = 0 \/ s.time_ < s.run.duration

\* One full cycle of the realtime loop.
realtimeCycle(s, reports) ==
  Bind(cycleInternal(s, reports, FALSE),
    LAMBDA cycled :
      IF cycled.halted THEN cycled
      ELSE [cycled EXCEPT !.run.cycles = @ + 1, !.run.pc = "cycle_function"])

\* cycle_function() is called; the pacing sleep that follows changes nothing.
cycleFunction(s, then) ==
  [s EXCEPT !.run.calls = @ + 1, !.run.pc = then]

\* The loop is left.
returned(s) == [s EXCEPT !.run.pc = "returned"]

\* runRemoteControlled(cycle_function) on the given lines of input.
runRemoteControlled(s, input) ==
  [s EXCEPT !.run = [NoRun EXCEPT !.loop = "remote", !.pc = "read",
                                  !.input = input]]

\* One line of input is read.
readLine(s) ==
  [s EXCEPT !.run.line = Head(s.run.input), !.run.input = Tail(@),
            !.run.lines = @ + 1, !.run.pc = "apply"]

RECURSIVE applyEvents(_, _)
\* The key events of a line are applied to the matrix, in order.
applyEvents(s, line) ==
  IF line = << >> THEN s
  ELSE applyEvents(IF Head(line).pressed THEN pressKey(s, Head(line).key)
                   ELSE releaseKey(s, Head(line).key),
                   Tail(line))

applyLine(s) == [applyEvents(s, s.run.line) EXCEPT !.run.pc = "cycle"]

\* The cycle of one iteration of the remote controlled loop.
remoteCycle(s, reports) == realtimeCycle(s, reports)

Predicates == {"pass", "fail"}

\* The cycle durations [ms] a test configures; 0 is "not set".
Durations == {0, 2, 3}

\* What the firmware emits over the cycles of one call that runs several: the
\* same report in every cycle, none at all, or different ones in turn.
FirmwareRuns ==
  { << a >> : a \in SeqsUpTo(Reports, 1) }
    \cup { << << [ch |-> KEYBOARD, any_key_active |-> TRUE] >>,
              << [ch |-> MOUSE, any_key_active |-> FALSE],
                 [ch |-> KEYBOARD, any_key_active |-> TRUE] >> >>,
            << << >>, << [ch |-> ABSOLUTE_MOUSE, any_key_active |-> FALSE] >> >> }

\* The assertions handed to evaluateAssertions / cycles / multiTapKey: they
\* are temporaries, told apart from the queued ones by negative ids.
Temporaries(preds) == [i \in 1..Len(preds) |-> Assertion(0 - i, preds[i], 0)]

\* --------------------------------------------------------------- actions

\* Simulator(out, debug, cycle_duration, abort_on_first_error), in a build
\* that aborts on every error or on failed assertions only.
Constructed(debug, cycle_duration, abort_on_first_error, every_error) ==
  /\ aborts_on_every_error = every_error
  /\ tests = << >>
  /\ run = NoRun
  /\ debug_ = debug
  /\ cycle_duration_ = cycle_duration
  /\ abort_on_first_error_ = abort_on_first_error
  /\ assertions_passed_ = TRUE
  /\ n_reports_in_cycle_ = 0
  /\ cycle_id_ = 0
  /\ time_ = 0
  /\ error_count_ = 0
  /\ error_if_report_without_queued_assertions_ = FALSE
  /\ keyboard_report_assertions_ = EmptyBundle
  /\ mouse_report_assertions_ = EmptyBundle
  /\ absolute_mouse_report_assertions_ = EmptyBundle
  /\ queued_cycle_assertions_ = <<>>
  /\ permanent_cycle_assertions_ = <<>>
  /\ key_state = {}
  /\ halted = FALSE
  /\ next_id = 0

\* A created assertion is added to a list only while the run's budget of
\* assertion objects lasts.
CanCreate == ~halted /\ next_id < MaxAssertions

\* <channel>ReportAssertions().queued().add(assertion)
AddQueuedReportAssertion ==
  /\ CanCreate
  /\ \E ch \in Channels, pred \in Predicates :
       Becomes([Self EXCEPT
            ![getAssertionQueueBundle(ch)].queued =
               add(@, Assertion(next_id + 1, pred, 0)),
            !.next_id = @ + 1])

\* <channel>ReportAssertions().permanent().add(assertion)
AddPermanentReportAssertion ==
  /\ CanCreate
  /\ \E ch \in Channels, pred \in Predicates :
       Becomes([Self EXCEPT
            ![getAssertionQueueBundle(ch)].permanent =
               add(@, Assertion(next_id + 1, pred, 0)),
            !.next_id = @ + 1])

\* queuedCycleAssertions().add(assertion)
AddQueuedCycleAssertion ==
  /\ CanCreate
  /\ \E pred \in Predicates :
       Becomes([Self EXCEPT
            ![queuedCycleAssertions] = add(@, Assertion(next_id + 1, pred, 0)),
            !.next_id = @ + 1])

\* permanentCycleAssertions().add(assertion)
AddPermanentCycleAssertion ==
  /\ CanCreate
  /\ \E pred \in Predicates :
       Becomes([Self EXCEPT
            ![permanentCycleAssertions] = add(@, Assertion(next_id + 1, pred, 0)),
            !.next_id = @ + 1])

\* No step of a run loop is blocked by the budget of errors: a loop that is
\* in a cycle finishes it.
WithinLoop(s) == s.cycle_id_ <= MaxRunCycles

\* A call returns (or halts) within the run's budget of cycles and errors.
Within(s) == s.cycle_id_ <= MaxCycles /\ s.error_count_ <= MaxErrors

WithinRun(s) == s.cycle_id_ <= MaxRunCycles /\ s.error_count_ <= MaxErrors

\* cycle()
Cycle ==
  /\ ~halted
  /\ \E reports \in Scans :
       \E s \in { cycleInternal(Self, reports, FALSE) } :
         Within(s) /\ Becomes(s)

\* cycles(n, assertions...)
Cycles ==
  /\ ~halted
  /\ \E n \in 1..MaxCycles, preds \in SeqsUpTo(Predicates, 1), fw \in FirmwareRuns :
       \E s \in { cycles(Self, n, Temporaries(preds), fw) } :
         WithinRun(s) /\ Becomes(s)

\* evaluateAssertions(assertions...)
EvaluateAssertions ==
  /\ ~halted
  /\ \E preds \in SeqsUpTo(Predicates, 2) \ { <<>> } :
       \E s \in { evaluateAssertionsInternal(
                     Self, Temporaries(preds), NoReport, "none", "direct") } :
         Within(s) /\ Becomes(s)

\* pressKey(row, col)
PressKey ==
  /\ ~halted
  /\ \E key \in Keys : Becomes(pressKey(Self, key))

\* releaseKey(row, col)
ReleaseKey ==
  /\ ~halted
  /\ \E key \in Keys : Becomes(releaseKey(Self, key))

\* tapKey(row, col)
TapKey ==
  /\ ~halted
  /\ \E key \in Keys : Becomes(tapKey(Self, key))

\* multiTapKey(num_taps, row, col, tap_interval_cycles, assertion)
MultiTapKey ==
  /\ ~halted
  /\ \E num_taps \in 0..MaxTaps, tap_interval_cycles \in 1..MaxTapInterval,
        key \in Keys, preds \in SeqsUpTo(Predicates, 1), fw \in FirmwareRuns :
       \E s \in { multiTapKey(Self, num_taps, key, tap_interval_cycles,
                               Temporaries(preds), fw) } :
         WithinRun(s) /\ Becomes(s)

\* advanceTime(delta_t) / advanceTimeBy(delta_t)
AdvanceTime ==
  /\ ~halted
  /\ \E delta_t \in 0..MaxDeltaT, fw \in FirmwareRuns :
       \E s \in { advanceTime(Self, delta_t, fw) } :
         WithinRun(s) /\ Becomes(s)

\* cycleTo(time) / advanceTimeTo(time)
CycleTo ==
  /\ ~halted
  /\ \E time \in 0..MaxDeltaT, fw \in FirmwareRuns :
       \E s \in { cycleTo(Self, time, fw) } :
         WithinRun(s) /\ Becomes(s)

\* assertNothingQueued()
AssertNothingQueued ==
  /\ ~halted
  /\ \E s \in { assertNothingQueued(Self) } : Within(s) /\ Becomes(s)

\* setErrorIfReportWithoutQueuedAssertions(state)
SetErrorIfReportWithoutQueuedAssertions ==
  /\ ~halted
  /\ \E state \in BOOLEAN :
       Becomes(setErrorIfReportWithoutQueuedAssertions(Self, state))

\* setDebug(state)
SetDebug ==
  /\ ~halted
  /\ \E state \in BOOLEAN :
       Becomes(setDebug(Self, state))

\* setCycleDuration(dt)
SetCycleDuration ==
  /\ ~halted
  /\ \E dt \in Durations :
       Becomes(setCycleDuration(Self, dt))

\* auto test = newTest(name);
NewTest ==
  /\ ~halted
  /\ Len(tests) < MaxOpenTests
  /\ Becomes(newTest(Self))

\* The innermost test object goes out of scope.
EndTest ==
  /\ ~halted
  /\ tests # << >>
  /\ \E s \in { TestDestructor(Self) } : Within(s) /\ Becomes(s)

\* No run loop is being executed: the test itself calls.
Idle == run.pc \in {"none", "returned"}

\* The durations [ms] of realtime runs; 0 is "forever".
RunDurations == {0, 4, 12}

MaxLines == 2

\* A line of key-event input: the events of one iteration.
KeyEvents == [pressed : BOOLEAN, key : Keys]

Lines == SeqsUpTo(KeyEvents, 1)

\* runRealtime(duration, cycle_function) is called.
RunRealtime ==
  /\ ~halted
  /\ Idle
  /\ \E duration \in RunDurations :
       /\ duration <= time_ + (MaxRunCycles - cycle_id_) * getCycleDuration(Self)
       /\ Becomes(runRealtime(Self, duration))

\* The realtime loop runs its next cycle.
RealtimeCycle ==
  /\ ~halted
  /\ run.loop = "realtime" /\ run.pc = "loop"
  /\ realtimeGoesOn(Self)
  /\ \E reports \in Scans :
       \E s \in { realtimeCycle(Self, reports) } :
         WithinLoop(s) /\ Becomes(s)

\* The realtime loop calls cycle_function.
RealtimeCycleFunction ==
  /\ ~halted
  /\ run.loop = "realtime" /\ run.pc = "cycle_function"
  /\ Becomes(cycleFunction(Self, "loop"))

\* The realtime loop ends.
RealtimeReturn ==
  /\ ~halted
  /\ run.loop = "realtime" /\ run.pc = "loop"
  /\ ~realtimeGoesOn(Self)
  /\ Becomes(returned(Self))

\* runRemoteControlled(cycle_function) is called, with what the input holds.
RunRemoteControlled ==
  /\ ~halted
  /\ Idle
  /\ \E input \in SeqsUpTo(Lines, MaxLines) :
       /\ cycle_id_ + Len(input) <= MaxRunCycles
       /\ Becomes(runRemoteControlled(Self, input))

\* The remote controlled loop reads a line.
RemoteRead ==
  /\ ~halted
  /\ run.loop = "remote" /\ run.pc = "read"
  /\ run.input # << >>
  /\ Becomes(readLine(Self))

\* The remote controlled loop applies the key events of the line.
RemoteApply ==
  /\ ~halted
  /\ run.loop = "remote" /\ run.pc = "apply"
  /\ Becomes(applyLine(Self))

\* The remote controlled loop runs the cycle of the iteration.
RemoteCycle ==
  /\ ~halted
  /\ run.loop = "remote" /\ run.pc = "cycle"
  /\ \E reports \in Scans :
       \E s \in { remoteCycle(Self, reports) } :
         WithinLoop(s) /\ Becomes(s)

\* The remote controlled loop calls cycle_function.
RemoteCycleFunction ==
  /\ ~halted
  /\ run.loop = "remote" /\ run.pc = "cycle_function"
  /\ Becomes(cycleFunction(Self, "read"))

\* The remote controlled loop meets the end of the input.
RemoteEnd ==
  /\ ~halted
  /\ run.loop = "remote" /\ run.pc = "read"
  /\ run.input = << >>
  /\ Becomes(returned(Self))

\* What queued_keyboard_report_assertions_ can hold where cycleExpectReports
\* reads it.
UndeclaredQueues == { << >>, << Assertion(0, "pass", 0) >> }

\* cycleExpectReports(assertions...)
CycleExpectReports ==
  /\ ~halted
  /\ \E preds \in SeqsUpTo(Predicates, 1), reports \in Scans,
        queued_keyboard_report_assertions_ \in UndeclaredQueues :
       /\ next_id + Len(preds) <= MaxAssertions
       /\ \E s \in { cycleExpectReports(Self, preds, reports,
                                         queued_keyboard_report_assertions_) } :
            Within(s) /\ Becomes(s)

\* -------------------------------------------------------- specifications

Init ==
  \E debug \in BOOLEAN, abort_on_first_error \in BOOLEAN, every_error \in BOOLEAN :
    /\ every_error => abort_on_first_error
    /\ Constructed(debug, DefaultCycleDuration, abort_on_first_error, every_error)

Next ==
  \/ AddQueuedReportAssertion
  \/ AddPermanentReportAssertion
  \/ AddQueuedCycleAssertion
  \/ AddPermanentCycleAssertion
  \/ Cycle
  \/ EvaluateAssertions
  \/ AssertNothingQueued
  \/ SetErrorIfReportWithoutQueuedAssertions

Spec == Init /\ [][Next]_vars

\* Runs that skip time, with any configured cycle duration.
InitSkip ==
  \E cycle_duration \in Durations :
    Constructed(FALSE, cycle_duration, FALSE, FALSE)

CanCreateTimed == next_id < MaxTimedAssertions

NextSkip ==
  \/ CanCreateTimed /\ AddQueuedReportAssertion
  \/ CanCreateTimed /\ AddPermanentReportAssertion
  \/ CanCreateTimed /\ AddQueuedCycleAssertion
  \/ CanCreateTimed /\ AddPermanentCycleAssertion
  \/ SetErrorIfReportWithoutQueuedAssertions
  \/ SetCycleDuration
  \/ Cycle
  \/ AdvanceTime
  \/ CycleTo

SpecSkip == InitSkip /\ [][NextSkip]_vars

\* Runs that press and tap keys and run several cycles per call.
InitTap ==
  \E abort_on_first_error \in BOOLEAN :
    Constructed(FALSE, DefaultCycleDuration, abort_on_first_error, FALSE)

NextTap ==
  \/ CanCreateTimed /\ AddQueuedReportAssertion
  \/ CanCreateTimed /\ AddPermanentReportAssertion
  \/ CanCreateTimed /\ AddQueuedCycleAssertion
  \/ CanCreateTimed /\ AddPermanentCycleAssertion
  \/ PressKey
  \/ ReleaseKey
  \/ TapKey
  \/ MultiTapKey
  \/ Cycle
  \/ Cycles
  \/ SetDebug

SpecTap == InitTap /\ [][NextTap]_vars

\* Runs with test scopes.
NextTest ==
  \/ CanCreateTimed /\ AddQueuedReportAssertion
  \/ CanCreateTimed /\ AddPermanentReportAssertion
  \/ CanCreateTimed /\ AddQueuedCycleAssertion
  \/ CanCreateTimed /\ AddPermanentCycleAssertion
  \/ Cycle
  \/ EvaluateAssertions
  \/ NewTest
  \/ EndTest
  \/ CycleExpectReports

SpecTest == Init /\ [][NextTest]_vars

\* Runs with the two run loops.  A loop that was entered goes on executing:
\* its steps are taken as long as they can be.
LoopStep ==
  \/ RealtimeCycle
  \/ RealtimeCycleFunction
  \/ RealtimeReturn
  \/ RemoteRead
  \/ RemoteApply
  \/ RemoteCycle
  \/ RemoteCycleFunction
  \/ RemoteEnd

NextRun ==
  \/ CanCreateTimed /\ Idle /\ AddQueuedReportAssertion
  \/ CanCreateTimed /\ Idle /\ AddPermanentReportAssertion
  \/ CanCreateTimed /\ Idle /\ AddQueuedCycleAssertion
  \/ CanCreateTimed /\ Idle /\ AddPermanentCycleAssertion
  \/ Idle /\ Cycle
  \/ RunRealtime
  \/ RunRemoteControlled
  \/ LoopStep

InitRun ==
  \E cycle_duration \in {3, DefaultCycleDuration}, abort_on_first_error \in BOOLEAN :
    Constructed(FALSE, cycle_duration, abort_on_first_error, FALSE)

SpecRun == InitRun /\ [][NextRun]_vars /\ WF_vars(LoopStep)

\* -------------------------------------------------- reading a call's trace

\* The lists of the orchestrator, read from its fields.  A list is designated
\* by the report type that triggers it, or by "cycle".
Lists == Channels \cup {"cycle"}

BundleOf(s, ch) ==
  CASE ch = KEYBOARD -> s.keyboard_report_assertions_
    [] ch = MOUSE -> s.mouse_report_assertions_
    [] ch = ABSOLUTE_MOUSE -> s.absolute_mouse_report_assertions_

QueuedOf(s, l) ==
  IF l = "cycle" THEN s.queued_cycle_assertions_ ELSE BundleOf(s, l).queued

PermanentOf(s, l) ==
  IF l = "cycle" THEN s.permanent_cycle_assertions_ ELSE BundleOf(s, l).permanent

Ids(queue) == [i \in 1..Len(queue) |-> queue[i].id]

Prefix(tr, n) == SubSeq(tr, 1, n)

Count(tr, P(_)) == Cardinality({ i \in 1..Len(tr) : P(tr[i]) })

\* The event that triggers list l: a report of its type, or a cycle.
IsTrigger(ev, l) ==
  IF l = "cycle" THEN ev.e = "cycle" ELSE ev.e = "report" /\ ev.ch = l

IsEval(ev, l, kind) == ev.e = "eval" /\ ev.ch = l /\ ev.kind = kind

IsPop(ev, l) == ev.e = "pop" /\ ev.ch = l

IdsOf(tr, P(_)) ==
  LET selected == SelectSeq(tr, P) IN [i \in 1..Len(selected) |-> selected[i].id]

\* Among the events that are an A or a B(_, a), every A directly follows a
\* B: each A has a B of its own before it.
EachFollows(tr, A(_), B(_, _)) ==
  \A i \in 1..Len(tr) :
    A(tr[i]) =>
      \E j \in 1..(i - 1) :
        /\ B(tr[j], tr[i])
        /\ \A k \in (j + 1)..(i - 1) : ~A(tr[k])

\* Between any two events that are an A there is a B.
Between(tr, A(_), B(_)) ==
  \A i, k \in 1..Len(tr) :
    i < k /\ A(tr[i]) /\ A(tr[k]) => \E j \in (i + 1)..(k - 1) : B(tr[j])

\* The calls of evaluateAssertions a test makes.
DirectLists == { Temporaries(preds) : preds \in SeqsUpTo(Predicates, 2) }

\* ------------------------------------------------------------------- C1

\* What one call (from s to r) does to the queued list l.
FifoStep(s, r, l) ==
  LET before == Ids(QueuedOf(s, l))
      evaluated == IdsOf(r.trace, LAMBDA ev : IsEval(ev, l, "queued"))
      popped == IdsOf(r.trace, LAMBDA ev : IsPop(ev, l))
      triggers == Count(r.trace, LAMBDA ev : IsTrigger(ev, l))
  IN \* insertion order, and no entry twice
     /\ Len(evaluated) <= Len(before)
     /\ evaluated = SubSeq(before, 1, Len(evaluated))
     \* one head entry per triggering event
     /\ EachFollows(r.trace, LAMBDA ev : IsEval(ev, l, "queued"),
                     LAMBDA ev, head : IsTrigger(ev, l))
     \* removed only after it was evaluated
     /\ EachFollows(r.trace, LAMBDA ev : IsPop(ev, l),
                     LAMBDA ev, pop : IsEval(ev, l, "queued") /\ ev.id = pop.id)
     /\ ~r.halted =>
          Len(evaluated) = IF triggers < Len(before) THEN triggers ELSE Len(before)
     \* what is removed is what was evaluated, so that it is never evaluated
     \* again
     /\ Len(popped) <= Len(evaluated)
     /\ popped = SubSeq(evaluated, 1, Len(popped))
     /\ ~r.halted => popped = evaluated
     /\ Ids(QueuedOf(r, l)) = SubSeq(before, Len(popped) + 1, Len(before))

\* An entry is never in a queued list twice.
QueuedOnce ==
  \A l \in Lists :
    \A i, j \in 1..Len(QueuedOf(Self, l)) :
      QueuedOf(Self, l)[i].id = QueuedOf(Self, l)[j].id => i = j

\* C1: over any sequence of cycles and reports, the entries of a queued list
\* (of a report type, or the queued cycle list) are evaluated in insertion
\* order, one head entry per triggering event; an entry is removed only after
\* it was evaluated and is never evaluated twice.  Nothing but the list's
\* trigger evaluates or removes an entry.
C1_QueuedFifo ==
  /\ QueuedOnce
  /\ ~halted =>
       /\ \A reports \in Scans :
            \A r \in { cycleInternal(Self, reports, FALSE) } :
              \A l \in Lists : FifoStep(Self, r, l)
       /\ \A assertions \in DirectLists :
            \A r \in { evaluateAssertionsInternal(
                         Self, assertions, NoReport, "none", "direct") } :
              \A l \in Lists : FifoStep(Self, r, l)
       /\ \A r \in { assertNothingQueued(Self) } :
            \A l \in Lists : FifoStep(Self, r, l)

\* Two entries wait in the keyboard list, and a cycle with two keyboard
\* reports evaluates and removes them one after the other.
C1_Witness ==
  /\ ~halted
  /\ Len(keyboard_report_assertions_.queued) = 2
  /\ \E reports \in Scans :
       \E r \in { cycleInternal(Self, reports, FALSE) } :
         /\ ~r.halted
         /\ IdsOf(r.trace, LAMBDA ev : IsEval(ev, KEYBOARD, "queued"))
              = Ids(keyboard_report_assertions_.queued)
         /\ r.keyboard_report_assertions_.queued = <<>>

\* ------------------------------------------------------------------- C2

\* What one call (from s to r) does to the permanent list l.
PermanentStep(s, r, l) ==
  /\ PermanentOf(r, l) = PermanentOf(s, l)
  /\ \A i \in 1..Len(PermanentOf(s, l)) :
       LET id == PermanentOf(s, l)[i].id
           Mine(ev) == IsEval(ev, l, "permanent") /\ ev.id = id
       IN /\ EachFollows(r.trace, Mine, LAMBDA ev, mine : IsTrigger(ev, l))
          /\ Between(r.trace, LAMBDA ev : IsTrigger(ev, l), Mine)
          /\ ~r.halted =>
               Count(r.trace, Mine) = Count(r.trace, LAMBDA ev : IsTrigger(ev, l))

\* C2: a permanent assertion is evaluated exactly once for each triggering
\* event of its list (each report of its type, or each cycle end) and stays
\* registered, as long as the run goes on.
C2_PermanentEveryTime ==
  ~halted =>
    \A reports \in Scans :
      \A r \in { cycleInternal(Self, reports, FALSE) } :
        \A l \in Lists : PermanentStep(Self, r, l)

\* A permanent assertion follows a failing one in the keyboard list, and a
\* cycle with two keyboard reports evaluates it twice.
C2_Witness ==
  /\ ~halted
  /\ Len(keyboard_report_assertions_.permanent) = 2
  /\ keyboard_report_assertions_.permanent[1].pred = "fail"
  /\ \E reports \in Scans :
       \E r \in { cycleInternal(Self, reports, FALSE) } :
         /\ ~r.halted
         /\ Count(r.trace, LAMBDA ev : IsTrigger(ev, KEYBOARD)) = 2
         /\ Count(r.trace,
                  LAMBDA ev : IsEval(ev, KEYBOARD, "permanent")
                                /\ ev.id = keyboard_report_assertions_.permanent[2].id) = 2

\* ------------------------------------------------------------------- C3

\* The eight lists of the orchestrator.
AllLists(s) ==
  { QueuedOf(s, l) : l \in Lists } \cup { PermanentOf(s, l) : l \in Lists }

Failures(tr) == { i \in 1..Len(tr) : tr[i].e = "eval" /\ ~tr[i].ok }

\* The call halted at its first failed assertion: that one was reported and
\* recorded, and nothing was evaluated, reported or done after it.
StopsAtFailure(r) ==
  /\ Failures(r.trace) # {} => r.halted
  /\ r.halted => r.trace[Len(r.trace)].e = "error"
  /\ (r.halted /\ ~r.aborts_on_every_error) => Failures(r.trace) # {}
  /\ \A i \in Failures(r.trace) :
       /\ Len(r.trace) = i + 2
       /\ r.trace[i + 1].e = "described"
       /\ r.trace[i + 1].id = r.trace[i].id
       /\ r.trace[i + 2].e = "error"

\* C4: with abort-on-first-error, when assertions are waiting and one fails,
\* that first failing one is the last to be evaluated and reported: the run
\* halts before any other is evaluated, and a halted run does nothing more.
C4_AbortOnFirstError ==
  /\ (~halted /\ abort_on_first_error_) =>
       /\ \A reports \in Scans :
            \A r \in { cycleInternal(Self, reports, FALSE) } : StopsAtFailure(r)
       /\ \A assertions \in DirectLists :
            \A r \in { evaluateAssertionsInternal(
                         Self, assertions, NoReport, "none", "direct") } :
              StopsAtFailure(r)
  /\ halted =>
       /\ abort_on_first_error_
       /\ error_count_ >= 1
       /\ \A reports \in Scans : cycleInternal(Self, reports, FALSE) = Self
       /\ \A assertions \in DirectLists :
            evaluateAssertionsInternal(
              Self, assertions, NoReport, "none", "direct") = Self

\* The run halted with two assertions in the keyboard list, the first of them
\* failing: it is still there, evaluated and not removed, with the second
\* behind it.
C4_Witness ==
  /\ halted
  /\ abort_on_first_error_
  /\ Len(keyboard_report_assertions_.queued) = 2
  /\ keyboard_report_assertions_.queued[1].pred = "fail"
  /\ error_count_ = 1

\* ------------------------------------------------------------------- C5

\* The error events of a trace that directly follow the event at i.
ErrorAfter(tr, i, e) ==
  i + 1 <= Len(tr) /\ tr[i].e = e /\ tr[i + 1].e = "error"

\* The errors a failed assertion's report recorded, and those a report
\* without queued assertion recorded.
AssertionErrors(tr) == { i \in 1..Len(tr) : ErrorAfter(tr, i, "described") }

ReportErrors(tr) == { i \in 1..Len(tr) : ErrorAfter(tr, i, "report") }

\* Every failed evaluation counts one error; a passed one counts none.
CountsFailures(s, r) ==
  /\ \A i \in 1..Len(r.trace) :
       r.trace[i].e = "eval" =>
         IF r.trace[i].ok
         THEN i + 1 \notin AssertionErrors(r.trace)
         ELSE i + 1 \in AssertionErrors(r.trace)
  /\ Cardinality(AssertionErrors(r.trace)) = Cardinality(Failures(r.trace))
  /\ r.error_count_ =
       s.error_count_ + Cardinality(AssertionErrors(r.trace))
                      + Cardinality(ReportErrors(r.trace))

\* What the evaluations of one call (from s to r) do to the error counter and
\* to the pass/fail flag.
EvaluationStep(s, r) ==
  /\ CountsFailures(s, r)
  /\ r.assertions_passed_ =
       IF r.halted THEN s.assertions_passed_
       ELSE s.assertions_passed_ /\ Failures(r.trace) = {}

\* The calls that evaluate assertions, from the current state.
Evaluations ==
  { cycleInternal(Self, reports, FALSE) : reports \in Scans }
    \cup { evaluateAssertionsInternal(Self, assertions, NoReport, "none", "direct") :
             assertions \in DirectLists }

\* C5 (as amended): every failing assertion evaluation (queued, permanent,
\* cycle or immediate) increments the error counter; it sets the pass/fail
\* flag to failed unless abort-on-first-error terminates the run at the
\* report of that failure, in which case the flag is left as it was; a passing
\* evaluation changes neither.
C5_FailureCounted ==
  ~halted => \A r \in Evaluations : EvaluationStep(Self, r)

\* C5 as stated: every failing evaluation increments the error counter and
\* sets the flag to failed; a passing evaluation changes neither.
C5_AsStated ==
  ~halted =>
    \A r \in Evaluations :
      /\ CountsFailures(Self, r)
      /\ r.assertions_passed_ = (assertions_passed_ /\ Failures(r.trace) = {})

\* The one assertion of the run was evaluated and is gone, the run goes on:
\* the flag is failed and one error is counted.
C5_Witness ==
  /\ ~halted
  /\ next_id = 1
  /\ \A queue \in AllLists(Self) : queue = <<>>
  /\ cycle_id_ = 1
  /\ ~assertions_passed_
  /\ error_count_ = 1

\* ------------------------------------------------------------------- C6

\* The reports of a cycle's trace that find the queued list of their type
\* empty: the k-th report of a type, with fewer than k entries queued.
Silent(s, tr) ==
  { i \in 1..Len(tr) :
      /\ tr[i].e = "report"
      /\ Count(Prefix(tr, i), LAMBDA ev : IsTrigger(ev, tr[i].ch))
           > Len(QueuedOf(s, tr[i].ch)) }

\* C6: a report that arrives while the queued list of its type is empty
\* records exactly one error if the error-if-report-without-queued-assertions
\* policy is enabled and none if it is disabled, whether or not permanent
\* assertions of that type exist and pass; a report that finds a queued
\* assertion records none.
C6_ReportWithoutQueued ==
  ~halted =>
    \A reports \in Scans :
      \A r \in { cycleInternal(Self, reports, FALSE) } :
        /\ \A i \in 1..Len(r.trace) :
             r.trace[i].e = "report" =>
               (i \in ReportErrors(r.trace)
                  <=> /\ i \in Silent(Self, r.trace)
                      /\ error_if_report_without_queued_assertions_)
        /\ r.error_count_ =
             error_count_ + Cardinality(Failures(r.trace))
               + IF error_if_report_without_queued_assertions_
                 THEN Cardinality(Silent(Self, r.trace)) ELSE 0

\* The policy is enabled, no keyboard assertion is queued, a permanent one
\* exists and passes: a cycle with a keyboard report records one error and
\* the flag stays passed.
C6_Witness ==
  /\ ~halted
  /\ error_if_report_without_queued_assertions_
  /\ keyboard_report_assertions_.queued = <<>>
  /\ Len(keyboard_report_assertions_.permanent) = 1
  /\ keyboard_report_assertions_.permanent[1].pred = "pass"
  /\ assertions_passed_
  /\ \E reports \in Scans :
       \E r \in { cycleInternal(Self, reports, FALSE) } :
         /\ Count(r.trace, LAMBDA ev : IsTrigger(ev, KEYBOARD)) = 1
         /\ Count(r.trace, LAMBDA ev : IsEval(ev, KEYBOARD, "permanent")) = 1
         /\ r.error_count_ = error_count_ + 1
         /\ r.assertions_passed_

\* ------------------------------------------------------------------- C7

Ceil(a, b) == (a + b - 1) \div b

\* The call (from s to r) ran the number of cycles that covers delta_t with
\* cycles of duration d, and the time is that many cycles later.
AdvancedBy(s, r, delta_t, d) ==
  /\ Count(r.trace, LAMBDA ev : ev.e = "cycle") = Ceil(delta_t, d)
  /\ r.cycle_id_ = s.cycle_id_ + Ceil(delta_t, d)
  /\ r.time_ = s.time_ + Ceil(delta_t, d) * d
  /\ delta_t % d = 0 => r.time_ = s.time_ + delta_t

\* C7: with a positive cycle duration d configured, advanceTime(delta_t) runs
\* ceil(delta_t / d) cycles and ends at time t0 + ceil(delta_t / d) * d: at
\* t0 + delta_t exactly when d divides delta_t, otherwise at the next cycle
\* boundary after it.
C7_AdvanceTime ==
  ~halted =>
    \A d \in Durations \ {0}, delta_t \in 0..MaxDeltaT, fw \in FirmwareRuns :
      \A configured \in { setCycleDuration(Self, d) } :
        \A r \in { advanceTime(configured, delta_t, fw) } :
          AdvancedBy(configured, r, delta_t, d)

\* The run stands three cycles of duration 3 after its start, and skipping
\* MaxDeltaT more runs the three cycles that cover it.
C7_Witness ==
  /\ cycle_duration_ = 3
  /\ cycle_id_ = 3
  /\ time_ = 9
  /\ \E r \in { advanceTime(Self, MaxDeltaT, <<<<>>>>) } :
       r.time_ = 18 /\ r.cycle_id_ = 6

\* ------------------------------------------------------------------- C8

\* The call (from s to r) ran its cycles in log-only mode: nothing was
\* evaluated, removed or recorded by them.
LogOnly(s, r) ==
  /\ \A l \in Lists :
       QueuedOf(r, l) = QueuedOf(s, l) /\ PermanentOf(r, l) = PermanentOf(s, l)
  /\ \A i \in 1..Len(r.trace) :
       /\ r.trace[i].e \notin {"eval", "pop", "described"}
       /\ r.trace[i].e = "cycle" => ~r.trace[i].ok
       \* the one error there can be is the missing cycle duration, before
       \* any cycle
       /\ r.trace[i].e = "error" => i = 1 /\ s.cycle_duration_ = 0
  /\ r.error_count_ =
       s.error_count_ + Count(r.trace, LAMBDA ev : ev.e = "error")
  /\ r.assertions_passed_ = s.assertions_passed_

RECURSIVE TapPattern(_, _)
\* n times: a tap (press, release), then k cycles.
TapPattern(n, k) ==
  IF n = 0 THEN << >>
  ELSE << "press", "release" >> \o [i \in 1..k |-> "cycle"] \o TapPattern(n - 1, k)

\* The key events and cycles of a trace, in order.
Steps(tr) ==
  LET selected == SelectSeq(tr, LAMBDA ev : ev.e \in {"press", "release", "cycle"})
  IN [i \in 1..Len(selected) |-> selected[i].e]

\* C9: multiTapKey(n, row, col, k) produces exactly n taps and n*k cycles,
\* interleaved as tap, k cycles, tap, k cycles, ...: no cycle runs before the
\* first tap and k full cycles follow every tap.  A run that abort-on-first-
\* error terminates on the way stops within that pattern.
C9_MultiTap ==
  ~halted =>
    \A num_taps \in 0..MaxTaps, tap_interval_cycles \in 1..MaxTapInterval,
       key \in Keys, preds \in SeqsUpTo(Predicates, 1), fw \in FirmwareRuns :
      \A r \in { multiTapKey(Self, num_taps, key, tap_interval_cycles,
                             Temporaries(preds), fw) } :
        LET pattern == TapPattern(num_taps, tap_interval_cycles)
        IN /\ Len(Steps(r.trace)) <= Len(pattern)
           /\ Steps(r.trace) = SubSeq(pattern, 1, Len(Steps(r.trace)))
           /\ \A i \in 1..Len(r.trace) : r.trace[i].e = "cycle" => r.trace[i].ok
           /\ ~r.halted =>
                /\ Steps(r.trace) = pattern
                /\ r.cycle_id_ = cycle_id_ + num_taps * tap_interval_cycles

\* After earlier cycles, a multiTapKey of MaxTaps taps with two cycles after
\* each runs to its end.
C9_Witness ==
  /\ ~halted
  /\ cycle_id_ > 0
  /\ permanent_cycle_assertions_ # <<>>
  /\ \E fw \in FirmwareRuns, key \in Keys :
       \E r \in { multiTapKey(Self, MaxTaps, key, 2, <<>>, fw) } :
         /\ ~r.halted
         /\ Steps(r.trace) = TapPattern(MaxTaps, 2)
         /\ r.cycle_id_ = cycle_id_ + 2 * MaxTaps

\* ------------------------------------------------------------------ C10

\* C10: a report of one type evaluates and removes only assertions of the
\* lists of that type: every evaluation and removal a report causes is of an
\* assertion registered for the type of the report being dispatched, and the
\* lists of a type no report of the cycle has are what they were.
C10_ChannelIsolation ==
  ~halted =>
    \A reports \in Scans :
      \A r \in { cycleInternal(Self, reports, FALSE) } :
        /\ \A i \in 1..Len(r.trace) :
             (r.trace[i].e \in {"eval", "pop"} /\ r.trace[i].ch \in Channels) =>
               /\ \E j \in 1..(i - 1) :
                    /\ IsTrigger(r.trace[j], r.trace[i].ch)
                    /\ \A k \in (j + 1)..(i - 1) : r.trace[k].e # "report"
               /\ \E a \in 1..Len(IF r.trace[i].kind = "queued"
                                  THEN QueuedOf(Self, r.trace[i].ch)
                                  ELSE PermanentOf(Self, r.trace[i].ch)) :
                    r.trace[i].id =
                      (IF r.trace[i].kind = "queued"
                       THEN QueuedOf(Self, r.trace[i].ch)
                       ELSE PermanentOf(Self, r.trace[i].ch))[a].id
        /\ \A ch \in Channels :
             (\A i \in 1..Len(reports) : reports[i].ch # ch)
               => BundleOf(r, ch) = BundleOf(Self, ch)

\* A keyboard and a mouse assertion are queued; a cycle with one mouse report
\* consumes the mouse assertion and leaves the keyboard one where it is.
C10_Witness ==
  /\ ~halted
  /\ Len(keyboard_report_assertions_.queued) = 1
  /\ Len(mouse_report_assertions_.queued) = 1
  /\ \E reports \in Scans :
       \E r \in { cycleInternal(Self, reports, FALSE) } :
         /\ ~r.halted
         /\ Count(r.trace, LAMBDA ev : IsTrigger(ev, MOUSE)) = 1
         /\ r.mouse_report_assertions_.queued = <<>>
         /\ r.keyboard_report_assertions_ = keyboard_report_assertions_

\* ------------------------------------------------------------------ C11

IsReport(ev) == ev.e = "report"

IsCycleEval(ev) == ev.e = "eval" /\ ev.ch = "cycle"

\* C11: in every cycle the reports are dispatched in the order the firmware
\* emitted them, and the end-of-cycle assertions (the head of the queued cycle
\* list, then all permanent cycle assertions) are evaluated only after every
\* report of the cycle was dispatched: nothing of a report's dispatch comes
\* after an end-of-cycle evaluation.
C11_EndOfCycleLast ==
  ~halted =>
    \A reports \in Scans :
      \A r \in { cycleInternal(Self, reports, FALSE) } :
        LET dispatched == SelectSeq(r.trace, IsReport)
        IN /\ Len(dispatched) <= Len(reports)
           /\ \A i \in 1..Len(dispatched) : dispatched[i].ch = reports[i].ch
           /\ ~r.halted => Len(dispatched) = Len(reports)
           /\ \A i \in 1..Len(r.trace) :
                IsCycleEval(r.trace[i]) =>
                  /\ Count(Prefix(r.trace, i), IsReport) = Len(reports)
                  /\ \A k \in (i + 1)..Len(r.trace) :
                       r.trace[k].ch \notin Channels
                  /\ r.trace[i].kind = "permanent" =>
                       \A k \in (i + 1)..Len(r.trace) :
                         ~IsEval(r.trace[k], "cycle", "queued")
           /\ \A head \in { IdsOf(r.trace, LAMBDA ev : IsEval(ev, "cycle", "queued")) } :
                /\ Len(head) <= 1
                /\ Len(head) = 1 =>
                     /\ QueuedOf(Self, "cycle") # << >>
                     /\ head[1] = QueuedOf(Self, "cycle")[1].id
           /\ ~r.halted =>
                IdsOf(r.trace, LAMBDA ev : IsEval(ev, "cycle", "permanent"))
                  = Ids(PermanentOf(Self, "cycle"))

\* A keyboard assertion and a permanent cycle assertion wait, and a cycle with
\* two reports, the keyboard report last, evaluates the cycle assertion after
\* the keyboard assertion.
C11_Witness ==
  /\ ~halted
  /\ Len(keyboard_report_assertions_.queued) = 1
  /\ Len(permanent_cycle_assertions_) = 1
  /\ \E reports \in Scans :
       \E r \in { cycleInternal(Self, reports, FALSE) } :
         /\ ~r.halted
         /\ Len(reports) = 2
         /\ reports[2].ch = KEYBOARD
         /\ reports[1].ch = MOUSE
         /\ \E i, k \in 1..Len(r.trace) :
              /\ i < k
              /\ IsEval(r.trace[i], KEYBOARD, "queued")
              /\ IsEval(r.trace[k], "cycle", "permanent")

\* ------------------------------------------------------------------ C12

IsCycle(ev) == ev.e = "cycle"

\* The call (from s to r) ran a number of cycles, and each of them advanced
\* the cycle id by 1 and the time by the cycle duration.
Ticked(s, r) ==
  /\ r.cycle_id_ = s.cycle_id_ + Count(r.trace, IsCycle)
  /\ r.time_ = s.time_ + Count(r.trace, IsCycle) * s.cycle_duration_

\* What the calls that run cycles do to cycle id and time, from the current
\* state.
Ticking ==
  ~halted =>
    /\ \A reports \in Scans, only_log_reports \in BOOLEAN :
         \A r \in { cycleInternal(Self, reports, only_log_reports) } :
           /\ r.cycle_id_ = cycle_id_ + 1
           /\ r.time_ = time_ + cycle_duration_
    /\ \A k \in 0..MaxRunCycles, fw \in FirmwareRuns :
         \A r \in { cyclesInternal(Self, k, << >>, fw) } :
           /\ r.cycle_id_ = cycle_id_ + k
           /\ r.time_ = time_ + k * cycle_duration_
    /\ \A t \in 0..MaxDeltaT, fw \in FirmwareRuns :
         /\ \A r \in { advanceTime(Self, t, fw) } : Ticked(Self, r)
         /\ \A r \in { cycleTo(Self, t, fw) } : Ticked(Self, r)

\* C12: cycle id and simulated time start at 0; every cycle, full or
\* time-skipping, increments the cycle id by exactly 1 and the time by exactly
\* the configured cycle duration, so that k cycles with a constant duration d
\* take them from (0, 0) to (k, k * d); neither ever decreases.
C12_CycleIdAndTime ==
  /\ cycle_id_ = 0 /\ time_ = 0
  /\ [][/\ cycle_id_' >= cycle_id_
        /\ time_' >= time_
        /\ time_' - time_ = (cycle_id_' - cycle_id_) * cycle_duration_]_vars
  /\ []Ticking

\* The run stands MaxRunCycles cycles of a positive duration after its start.
C12_Witness ==
  /\ cycle_duration_ > 0
  /\ cycle_id_ = MaxRunCycles
  /\ time_ = MaxRunCycles * cycle_duration_

\* ------------------------------------------------------------------ C13

\* The cycle from s to r, with the one report rep, evaluated the one queued
\* assertion of rep's type against rep, with the given result.
HeadEvaluated(s, r, rep, ok) ==
  /\ r.trace[2] = Ev("report", rep.ch, "none", 0, TRUE)
  /\ r.trace[3] = Ev("eval", rep.ch, "queued", QueuedOf(s, rep.ch)[1].id, ok)

\* The one queued assertion passed: it is gone and counted no error.
HeadPassed(s, r, rep) ==
  /\ HeadEvaluated(s, r, rep, TRUE)
  /\ QueuedOf(r, rep.ch) = << >>
  /\ r.error_count_ = s.error_count_ + Cardinality(Failures(r.trace))
  /\ (\A queue \in AllLists(s) \ { QueuedOf(s, rep.ch) } : queue = << >>)
       => r.error_count_ = s.error_count_

\* The orchestrator after keyboardReportAssertions().queued().add() of an
\* "any keycode active" assertion.
WithAnyKeycodeActive(s) ==
  [s EXCEPT ![getAssertionQueueBundle(KEYBOARD)].queued =
              add(@, Assertion(s.next_id + 1, "AnyKeycodeActive", 0)),
            !.next_id = @ + 1]

\* C13: when one queued report assertion that evaluates true is pending and
\* a cycle produces exactly one report of its type, the assertion is
\* evaluated against that report, the queued list of the type is empty
\* afterwards, and the error count is unchanged (no other assertion pending).
\* So for "any keycode active" and a keyboard report with an active keycode;
\* against a report without one the same assertion fails.
C13_OneQueuedOneReport ==
  ~halted =>
    \A rep \in ReportsOf(BOOLEAN) :
      /\ (Len(QueuedOf(Self, rep.ch)) = 1
            /\ evalInternal(Self, QueuedOf(Self, rep.ch)[1], rep)) =>
           \A r \in { cycleInternal(Self, << rep >>, FALSE) } :
             HeadPassed(Self, r, rep)
      /\ (rep.ch = KEYBOARD /\ QueuedOf(Self, KEYBOARD) = << >>) =>
           \A queued \in { WithAnyKeycodeActive(Self) } :
             \A r \in { cycleInternal(queued, << rep >>, FALSE) } :
               IF rep.any_key_active
               THEN HeadPassed(queued, r, rep)
               ELSE /\ HeadEvaluated(queued, r, rep, FALSE)
                    /\ r.error_count_ > error_count_

\* Nothing but one passing keyboard assertion is pending, and the cycle with
\* one keyboard report consumes it without an error.
C13_Witness ==
  /\ ~halted
  /\ Len(keyboard_report_assertions_.queued) = 1
  /\ keyboard_report_assertions_.queued[1].pred = "pass"
  /\ \A queue \in AllLists(Self) \ { keyboard_report_assertions_.queued } :
       queue = << >>
  /\ \E rep \in Reports :
       \E r \in { cycleInternal(Self, << rep >>, FALSE) } :
         /\ rep.ch = KEYBOARD
         /\ r.keyboard_report_assertions_.queued = << >>
         /\ r.error_count_ = error_count_
         /\ r.cycle_id_ = cycle_id_ + 1

\* ------------------------------------------------------------------ C14

IsVerdict(ev) == ev.e = "verdict"

\* The verdicts a call reported: TRUE is passed.
Verdicts(tr) ==
  LET selected == SelectSeq(tr, IsVerdict)
  IN [i \in 1..Len(selected) |-> selected[i].ok]

\* C14: a Test scope records the error count at its construction, and at its
\* destruction the test is reported failed if and only if the error count is
\* then greater than the recorded value: passed iff no error was counted in
\* its lifetime.
C14_TestVerdict ==
  ~halted =>
    /\ \A r \in { newTest(Self) } :
         /\ r.tests = Append(tests, [error_count_start_ |-> error_count_])
         /\ r.error_count_ = error_count_
         /\ Verdicts(r.trace) = << >>
    /\ \A i \in 1..Len(tests) : tests[i].error_count_start_ <= error_count_
    /\ tests # << >> =>
         \A r \in { TestDestructor(Self) } :
           ~r.halted =>
             /\ Verdicts(r.trace) =
                  << ~(r.error_count_ > tests[Len(tests)].error_count_start_) >>
             /\ r.tests = SubSeq(tests, 1, Len(tests) - 1)

\* A test is open, an error was counted since it was opened and nothing is
\* queued: the test ends failed.
C14_Witness ==
  /\ ~halted
  /\ Len(tests) = 1
  /\ error_count_ > tests[1].error_count_start_
  /\ \A queue \in AllLists(Self) : queue = << >>
  /\ \E r \in { TestDestructor(Self) } :
       /\ Verdicts(r.trace) = << FALSE >>
       /\ r.error_count_ = error_count_

\* ------------------------------------------------------------------ C15

\* C15: assertNothingQueued() is called at the end of each test, before the
\* verdict: a Test scope that ends while an assertion is still in a list
\* counts the error of assertNothingQueued and is reported failed, also when
\* no evaluated assertion failed; with nothing in a list the end of the scope
\* counts no error.
C15_TestEndsWithNothingQueued ==
  (~halted /\ tests # << >>) =>
    \A r \in { TestDestructor(Self) } :
      IF \E queue \in AllLists(Self) : queue # << >>
      THEN /\ r.error_count_ = error_count_ + 1
           /\ r.trace[1].e = "error"
           /\ ~r.halted => Verdicts(r.trace) = << FALSE >>
           /\ \A i \in 1..Len(r.trace) : IsVerdict(r.trace[i]) => i > 1
      ELSE /\ r.error_count_ = error_count_
           /\ \A i \in 1..Len(r.trace) : r.trace[i].e # "error"

\* A test is open, no error was counted in it and no assertion failed, and a
\* keyboard assertion is still queued: the test ends failed.
C15_Witness ==
  /\ ~halted
  /\ Len(tests) = 1
  /\ error_count_ = tests[1].error_count_start_
  /\ assertions_passed_
  /\ keyboard_report_assertions_.queued # << >>
  /\ \E r \in { TestDestructor(Self) } :
       /\ ~r.halted
       /\ Verdicts(r.trace) = << FALSE >>

\* ------------------------------------------------------------------ C16

\* The orchestrator apart from the key matrix (and from what a call logged).
ApartFromKeys(s) == [f \in DOMAIN s \ {"key_state", "trace"} |-> s[f]]

Events(tr) == [i \in 1..Len(tr) |-> tr[i].e]

\* C16: pressKey, releaseKey and tapKey change only the state of the key
\* matrix: none of them runs a cycle, and cycle id, time, all assertion lists
\* and the error count are what they were; tapKey is a press followed by a
\* release with no cycle in between.
C16_KeysOnly ==
  ~halted =>
    \A key \in Keys :
      /\ \A r \in { pressKey(Self, key) } :
           /\ ApartFromKeys(r) = ApartFromKeys(Self)
           /\ r.key_state = key_state \cup {key}
           /\ Events(r.trace) = << "press" >>
      /\ \A r \in { releaseKey(Self, key) } :
           /\ ApartFromKeys(r) = ApartFromKeys(Self)
           /\ r.key_state = key_state \ {key}
           /\ Events(r.trace) = << "release" >>
      /\ \A r \in { tapKey(Self, key) } :
           /\ ApartFromKeys(r) = ApartFromKeys(Self)
           /\ r.key_state = key_state \ {key}
           /\ Events(r.trace) = << "press", "release" >>

\* Cycles were run, an assertion is registered and the key is down: a tap
\* leaves the key released and everything else as it is.
C16_Witness ==
  /\ ~halted
  /\ cycle_id_ > 0
  /\ \E queue \in AllLists(Self) : queue # << >>
  /\ key_state # {}
  /\ \E key \in Keys :
       \E r \in { tapKey(Self, key) } :
         r.key_state = {} /\ r.cycle_id_ = cycle_id_

\* ------------------------------------------------------------------ C17

InRealtime == run.loop = "realtime" /\ run.pc # "returned"

\* Where the realtime loop stands: cycle_function was called after every cycle
\* run so far, or is about to be called for the last one.
RealtimeStands ==
  run.loop = "realtime" =>
    /\ run.pc \in {"loop", "returned"} => run.calls = run.cycles
    /\ run.pc = "cycle_function" => run.cycles = run.calls + 1

\* A step of the realtime loop: a cycle is a full one (the cycle id and the
\* time advance by one cycle) and is run only while the time has not reached
\* a positive duration; cycle_function is called once, after a cycle; the
\* loop is left only with a positive duration, which the time has reached, and
\* not before the last cycle.
RealtimeSteps ==
  (InRealtime /\ ~halted') =>
    /\ run'.cycles # run.cycles =>
         /\ run'.cycles = run.cycles + 1 /\ run'.calls = run.calls
         /\ cycle_id_' = cycle_id_ + 1 /\ time_' = time_ + cycle_duration_
         /\ run.duration > 0 => time_ < run.duration
    /\ run'.calls # run.calls =>
         /\ run'.calls = run.calls + 1 /\ run'.cycles = run.cycles
         /\ cycle_id_' = cycle_id_ /\ time_' = time_
    /\ run'.pc = "returned" =>
         /\ run.duration > 0
         /\ time_ >= run.duration
         /\ run.cycles > 0 => time_ - cycle_duration_ < run.duration
         /\ run.calls = run.cycles

C17_Forever ==
  /\ ~halted
  /\ run.loop = "realtime" /\ run.duration = 0
  /\ run.cycles >= 3

\* ------------------------------------------------------------------ C18

InRemote == run.loop = "remote" /\ run.pc # "returned"

\* Where the remote controlled loop stands, in lines read, cycles run and
\* calls of cycle_function.
RemoteStands ==
  run.loop = "remote" =>
    /\ run.pc \in {"read", "returned"} =>
         run.cycles = run.lines /\ run.calls = run.lines
    /\ run.pc \in {"apply", "cycle"} =>
         run.cycles = run.lines - 1 /\ run.calls = run.lines - 1
    /\ run.pc = "cycle_function" =>
         run.cycles = run.lines /\ run.calls = run.lines - 1
    /\ run.pc = "returned" => run.input = << >>

\* The matrix after the key events of a line of at most one event.
Applied(line) ==
  IF line = << >> THEN key_state
  ELSE IF line[1].pressed THEN key_state \cup {line[1].key}
  ELSE key_state \ {line[1].key}

\* A step of the remote controlled loop: a line is read (the loop is left if
\* there is none), then its key events are applied to the matrix, then one
\* full cycle is run, then cycle_function is called, then the next line is
\* read; no line of the input is lost.
RemoteSteps ==
  (InRemote /\ ~halted') =>
    /\ run'.lines + Len(run'.input) = run.lines + Len(run.input)
    /\ run.pc = "read" =>
         /\ run'.pc = IF run.input = << >> THEN "returned" ELSE "apply"
         /\ run.input # << >> =>
              run'.line = Head(run.input) /\ run'.lines = run.lines + 1
         /\ key_state' = key_state /\ cycle_id_' = cycle_id_
         /\ run'.calls = run.calls
    /\ run.pc = "apply" =>
         /\ run'.pc = "cycle"
         /\ key_state' = Applied(run.line)
         /\ cycle_id_' = cycle_id_ /\ run'.calls = run.calls
    /\ run.pc = "cycle" =>
         /\ run'.pc = "cycle_function"
         /\ cycle_id_' = cycle_id_ + 1 /\ time_' = time_ + cycle_duration_
         /\ run'.cycles = run.cycles + 1
         /\ key_state' = key_state /\ run'.calls = run.calls
    /\ run.pc = "cycle_function" =>
         /\ run'.pc = "read"
         /\ run'.calls = run.calls + 1
         /\ key_state' = key_state /\ cycle_id_' = cycle_id_

\* C18: runRemoteControlled(cycle_function) performs for each line of input
\* one iteration in the order read line, apply press/release to the matrix,
\* run one cycle, call cycle_function; it terminates on end-of-input, so for
\* m lines it runs exactly m cycles and m calls of cycle_function.
C18_RunRemoteControlled ==
  /\ []RemoteStands
  /\ [][RemoteSteps]_vars
  /\ InRemote ~> (run.pc = "returned" \/ halted)

\* An input of two lines, the second a press, was run: two cycles, two calls,
\* no input left, and the key is down.
C18_Witness ==
  /\ ~halted
  /\ run.loop = "remote" /\ run.pc = "returned"
  /\ run.lines = 2 /\ run.cycles = 2 /\ run.calls = 2
  /\ run.input = << >>
  /\ run.line # << >> /\ run.line[1].pressed
  /\ key_state # {}

\* ------------------------------------------------------------------ C19

RECURSIVE CyclesPattern(_, _)
\* n times: a cycle (0), then the supplied assertions in order (their ids).
CyclesPattern(n, ids) ==
  IF n = 0 THEN << >> ELSE << 0 >> \o ids \o CyclesPattern(n - 1, ids)

IsCycleEnd(ev) == ev.e = "cycle_end"

IsDirectEval(ev) == IsEval(ev, "none", "direct")

\* The cycles completed and the supplied assertions evaluated, in order.
CyclesAndEvaluations(tr) ==
  LET selected == SelectSeq(tr, LAMBDA ev : IsCycleEnd(ev) \/ IsDirectEval(ev))
  IN [i \in 1..Len(selected) |->
        IF IsCycleEnd(selected[i]) THEN 0 ELSE selected[i].id]

IsSuffix(tail, queue) ==
  /\ Len(tail) <= Len(queue)
  /\ tail = SubSeq(queue, Len(queue) - Len(tail) + 1, Len(queue))

\* C19: cycles(n, a1..am) with n > 0 runs exactly n full cycles and evaluates
\* every supplied assertion once after each of them, in the order given (n
\* evaluations each), and adds none of them to any list: the lists hold what
\* they held, less the queued entries the cycles consumed.  A run that
\* abort-on-first-error terminates on the way stops within that pattern.
C19_CyclesWithAssertions ==
  ~halted =>
    \A n \in 1..MaxCycles, preds \in SeqsUpTo(Predicates, 2), fw \in FirmwareRuns :
      \A r \in { cycles(Self, n, Temporaries(preds), fw) } :
        \A done \in { CyclesAndEvaluations(r.trace) } :
          LET pattern == CyclesPattern(n, Ids(Temporaries(preds)))
          IN /\ Len(done) <= Len(pattern)
             /\ done = SubSeq(pattern, 1, Len(done))
             /\ \A i \in 1..Len(r.trace) : IsCycle(r.trace[i]) => r.trace[i].ok
             /\ Count(r.trace, IsCycleEnd) <= Count(r.trace, IsCycle)
             /\ \A l \in Lists :
                  /\ PermanentOf(r, l) = PermanentOf(Self, l)
                  /\ IsSuffix(QueuedOf(r, l), QueuedOf(Self, l))
             /\ ~r.halted =>
                  /\ done = pattern
                  /\ Count(r.trace, IsCycle) = n
                  /\ r.cycle_id_ = cycle_id_ + n
                  /\ r.time_ = time_ + n * cycle_duration_
                  /\ \A i \in 1..Len(preds) :
                       Count(r.trace, LAMBDA ev : IsDirectEval(ev) /\ ev.id = 0 - i) = n

\* With an assertion registered, cycles(2, a1, a2) returns after two cycles
\* with a1 and a2 evaluated after each, a2 failing both times, and the
\* registered assertion where it was.
C19_Witness ==
  /\ ~halted
  /\ \E l \in Lists : PermanentOf(Self, l) # << >>
  /\ \E fw \in FirmwareRuns :
       \E r \in { cycles(Self, 2, Temporaries(<< "pass", "fail" >>), fw) } :
         /\ ~r.halted
         /\ CyclesAndEvaluations(r.trace) = << 0, -1, -2, 0, -1, -2 >>
         /\ r.error_count_ = error_count_ + 2
         /\ \A l \in Lists : PermanentOf(r, l) = PermanentOf(Self, l)

\* ------------------------------------------------------------------ C20

\* The call (from s to r) recorded one configuration error if no cycle
\* duration is set, and no error otherwise.
ConfigurationError(s, r) ==
  /\ getCycleDuration(s) = 0 =>
       /\ r.error_count_ = s.error_count_ + 1
       /\ Count(r.trace, LAMBDA ev : ev.e = "error") = 1
       /\ r.trace[1].e = "error"
  /\ getCycleDuration(s) # 0 =>
       /\ r.error_count_ = s.error_count_
       /\ Count(r.trace, LAMBDA ev : ev.e = "error") = 0

\* C20: advanceTime and cycleTo, called while no cycle duration is set,
\* record a configuration error, and they record it in error_count_, the
\* counter that a failed assertion and a non-empty list at assertNothingQueued
\* increment; with a cycle duration set they record none.
C20_ConfigurationError ==
  ~halted =>
    /\ \A t \in 0..MaxDeltaT, fw \in FirmwareRuns :
         /\ \A r \in { advanceTime(Self, t, fw) } : ConfigurationError(Self, r)
         /\ \A r \in { cycleTo(Self, t, fw) } : ConfigurationError(Self, r)
    /\ \A r \in { evaluateAssertionsInternal(
                    Self, Temporaries(<< "fail" >>), NoReport, "none", "direct") } :
         r.error_count_ = error_count_ + 1
    /\ (\E queue \in AllLists(Self) : queue # << >>) =>
         \A r \in { assertNothingQueued(Self) } :
           r.error_count_ = error_count_ + 1

\* After a cycle was run, the cycle duration was reset to 0 and an error is
\* already counted: cycleTo a later time counts one more and runs no cycle.
C20_Witness ==
  /\ ~halted
  /\ cycle_duration_ = 0
  /\ cycle_id_ > 0
  /\ error_count_ = 1
  /\ \E fw \in FirmwareRuns :
       \E r \in { cycleTo(Self, time_ + 1, fw) } :
         /\ r.error_count_ = 2
         /\ r.cycle_id_ = cycle_id_

\* ------------------------------------------------------------------ C21

\* ReportNthInCycle(k), as the assertion object a test creates next.
ReportNthInCycle(s, k) == Assertion(s.next_id + 1, "ReportNthInCycle", k)

\* The orchestrator after permanent().add() of one ReportNthInCycle(k) to the
\* permanent list of every report type and to the permanent cycle assertions.
WithReportNthInCycle(s, k) ==
  [s EXCEPT
     ![getAssertionQueueBundle(KEYBOARD)].permanent = add(@, ReportNthInCycle(s, k)),
     ![getAssertionQueueBundle(MOUSE)].permanent = add(@, ReportNthInCycle(s, k)),
     ![getAssertionQueueBundle(ABSOLUTE_MOUSE)].permanent =
        add(@, ReportNthInCycle(s, k)),
     ![permanentCycleAssertions] = add(@, ReportNthInCycle(s, k)),
     !.next_id = @ + 1]

\* The positions in a trace at which a report is dispatched.
ReportPositions(tr) == { i \in 1..Len(tr) : IsReport(tr[i]) }

\* The evaluations of assertion id in the dispatch of the report at position
\* i: after it and before the next report or the end of the cycle.
EvaluatedAt(tr, i, id) ==
  { m \in (i + 1)..Len(tr) :
      /\ tr[m].e = "eval" /\ tr[m].id = id /\ tr[m].ch # "cycle"
      /\ \A j \in (i + 1)..(m - 1) : ~IsReport(tr[j]) }

\* In the cycle from s to r on the given reports, ReportNthInCycle(k) (of the
\* given id) passed exactly against the report with 0-based index k, and at
\* the end of the cycle exactly if k reports were emitted.
NthInCycle(r, reports, k, id) ==
  /\ \A i \in ReportPositions(r.trace) :
       LET index == Cardinality({ p \in ReportPositions(r.trace) : p < i })
       IN /\ Cardinality(EvaluatedAt(r.trace, i, id)) <= 1
          /\ \A m \in EvaluatedAt(r.trace, i, id) :
               /\ r.trace[m].ch = reports[index + 1].ch
               /\ r.trace[m].ok <=> (k = index)
          /\ ~r.halted => Cardinality(EvaluatedAt(r.trace, i, id)) = 1
  /\ \A m \in 1..Len(r.trace) :
       (r.trace[m].e = "eval" /\ r.trace[m].id = id /\ r.trace[m].ch = "cycle") =>
         (r.trace[m].ok <=> (k = Len(reports)))
  /\ ~r.halted =>
       /\ Cardinality(ReportPositions(r.trace)) = Len(reports)
       /\ Count(r.trace, LAMBDA ev : ev.e = "eval" /\ ev.id = id /\ ev.ch = "cycle") = 1
       /\ r.n_reports_in_cycle_ = Len(reports)

Reached(s, r, t) ==
  \A n \in { Count(r.trace, IsCycle) } :
    /\ r.time_ = s.time_ + n * s.cycle_duration_
    /\ r.cycle_id_ = s.cycle_id_ + n
    /\ r.time_ >= t
    /\ n > 0 => r.time_ - s.cycle_duration_ < t
    /\ s.time_ >= t => n = 0 /\ r.time_ = s.time_

\* C22: with a cycle duration set, cycleTo(t) runs the minimum number of
\* cycles after which the simulated time is >= t: afterwards the time is
\* >= t, the time before the last cycle run was < t, and when the time is
\* already >= t no cycle is run and the time is unchanged.
C22_CycleTo ==
  (~halted /\ cycle_duration_ # 0) =>
    \A t \in 0..(time_ + MaxDeltaT), fw \in FirmwareRuns :
      \A r \in { cycleTo(Self, t, fw) } : Reached(Self, r, t)

\* At a time past 0 with cycles of 3 ms, cycleTo 4 ms later runs two cycles
\* and ends 6 ms later; cycleTo an earlier time runs none.
C22_Witness ==
  /\ ~halted
  /\ cycle_duration_ = 3
  /\ time_ > 0
  /\ \E fw \in FirmwareRuns :
       /\ \E r \in { cycleTo(Self, time_ + 4, fw) } :
            Count(r.trace, IsCycle) = 2 /\ r.time_ = time_ + 6
       /\ \E r \in { cycleTo(Self, time_ - 1, fw) } :
            Count(r.trace, IsCycle) = 0 /\ r.time_ = time_

\* ------------------------------------------------------------------ C23

RECURSIVE TapEvalPattern(_, _)
\* n times: a tap, k completed cycles, the evaluation of the assertion.
TapEvalPattern(n, k) ==
  IF n = 0 THEN << >>
  ELSE << "press", "release" >> \o [i \in 1..k |-> "cycle_end"] \o << "eval" >>
         \o TapEvalPattern(n - 1, k)

\* The key events, the completed cycles and the evaluations of the supplied
\* assertion in a trace, in order.
TapSteps(tr) ==
  LET selected == SelectSeq(tr, LAMBDA ev :
                    ev.e \in {"press", "release", "cycle_end"} \/ IsDirectEval(ev))
  IN [i \in 1..Len(selected) |-> selected[i].e]

\* multiTapKey from s to r evaluated its assertion once after the k cycles
\* that follow each tap and before the next tap.
EvaluatedAfterEachTap(s, r, n, k) ==
  \A done \in { TapSteps(r.trace) } :
    LET pattern == TapEvalPattern(n, k)
    IN /\ Len(done) <= Len(pattern)
       /\ done = SubSeq(pattern, 1, Len(done))
       /\ \A i \in 1..Len(r.trace) : IsDirectEval(r.trace[i]) => r.trace[i].id = -1
       /\ ~r.halted =>
            /\ done = pattern
            /\ Count(r.trace, IsDirectEval) = n

MultiTaps ==
  { multiTapKey(Self, n, key, k, Temporaries(<< pred >>), fw) :
      n \in 0..MaxTaps, k \in 1..MaxTapInterval, key \in Keys,
      pred \in Predicates, fw \in FirmwareRuns }

\* C23 (as amended): the assertion given to multiTapKey(n, row, col, k,
\* assertion) is evaluated exactly n times, once immediately after the k
\* cycles that follow each tap and before the next tap; a failing evaluation
\* increments the error count, and sets the pass/fail flag to failed unless
\* abort-on-first-error terminates the run at the report of that failure.
C23_MultiTapAssertion ==
  ~halted =>
    \A n \in 0..MaxTaps, k \in 1..MaxTapInterval, key \in Keys,
       pred \in Predicates, fw \in FirmwareRuns :
      \A r \in { multiTapKey(Self, n, key, k, Temporaries(<< pred >>), fw) } :
        /\ EvaluatedAfterEachTap(Self, r, n, k)
        /\ EvaluationStep(Self, r)

\* C23 as stated: ... and a failing evaluation is recorded with the error
\* count incremented and the verdict failed.
C23_AsStated ==
  ~halted =>
    \A r \in MultiTaps :
      /\ CountsFailures(Self, r)
      /\ Failures(r.trace) # {} => ~r.assertions_passed_

\* Nothing is registered and the run goes on after failures: multiTapKey of
\* two taps with two cycles each and a failing assertion evaluates it after
\* the second and after the fourth cycle, counts two errors and the flag is
\* failed.
C23_Witness ==
  /\ ~halted
  /\ ~abort_on_first_error_
  /\ cycle_id_ > 0
  /\ \A queue \in AllLists(Self) : queue = << >>
  /\ \E key \in Keys, fw \in FirmwareRuns :
       \E r \in { multiTapKey(Self, 2, key, 2, Temporaries(<< "fail" >>), fw) } :
         /\ TapSteps(r.trace) = TapEvalPattern(2, 2)
         /\ r.error_count_ = error_count_ + 2
         /\ ~r.assertions_passed_
         /\ r.cycle_id_ = cycle_id_ + 4

\* ------------------------------------------------------------------ C24

\* The call (from s to r) left every permanent list as it was.
PermanentKept(s, r) == \A l \in Lists : PermanentOf(r, l) = PermanentOf(s, l)

\* C24: no cycle, report dispatch or time skip ever removes or adds a
\* permanent assertion: whatever was run before, a cycle (full or log-only),
\* advanceTime and cycleTo leave the four permanent lists as they are, and
\* in a run they change only by an add of the caller.
C24_PermanentKept ==
  /\ ~halted =>
       /\ \A reports \in Scans, only_log_reports \in BOOLEAN :
            \A r \in { cycleInternal(Self, reports, only_log_reports) } :
              PermanentKept(Self, r)
       /\ \A t \in 0..MaxDeltaT, fw \in FirmwareRuns :
            /\ \A r \in { advanceTime(Self, t, fw) } : PermanentKept(Self, r)
            /\ \A r \in { cycleTo(Self, time_ + t, fw) } : PermanentKept(Self, r)
  /\ \A l \in Lists :
       /\ Len(PermanentOf(Self, l)) <= next_id
       /\ \A i \in 1..Len(PermanentOf(Self, l)) :
            PermanentOf(Self, l)[i].id \in 1..next_id

\* After cycles and a time skip the permanent assertion added before them is
\* still registered, and a further cycle with reports of every type keeps it.
C24_Witness ==
  /\ ~halted
  /\ cycle_id_ >= 2
  /\ \E l \in Lists : PermanentOf(Self, l) # << >>
  /\ error_count_ > 0
  /\ \E reports \in Scans :
       \E r \in { cycleInternal(Self, reports, FALSE) } :
         /\ Len(reports) = MaxReports
         /\ PermanentKept(Self, r)
         /\ r.cycle_id_ = cycle_id_ + 1

\* ------------------------------------------------------------------ C25

\* C25 as stated: cycleExpectReports(a1..am) appends the assertions to the
\* queued keyboard report assertions, runs exactly one full cycle, and then
\* records exactly one more error if and only if that list is still not
\* empty after the cycle; it does not remove what is left in it.
C25_AsStated ==
  ~halted =>
    \A preds \in SeqsUpTo(Predicates, 2), reports \in Scans,
       queued_keyboard_report_assertions_ \in UndeclaredQueues :
      \A appended \in { [Self EXCEPT
                           !.keyboard_report_assertions_.queued =
                              @ \o Created(Self, preds),
                           !.next_id = @ + Len(preds)] } :
        \A cycled \in { cycleInternal(appended, reports, FALSE) } :
          \A r \in { cycleExpectReports(Self, preds, reports,
                                        queued_keyboard_report_assertions_) } :
            ~r.halted =>
              /\ Count(r.trace, IsCycle) = 1
              /\ r.cycle_id_ = cycle_id_ + 1
              /\ AllLists(r) = AllLists(cycled)
              /\ r.keyboard_report_assertions_ = cycled.keyboard_report_assertions_
              /\ r.error_count_ =
                   IF cycled.keyboard_report_assertions_.queued # << >>
                   THEN cycled.error_count_ + 1
                   ELSE cycled.error_count_

\* ------------------------------------------------------------------ C26

\* The call (from s to r) recorded errors without evaluating an assertion: the
\* pass/fail flag is what it was.
FlagKept(s, r) ==
  (~\E i \in 1..Len(r.trace) : r.trace[i].e = "eval") =>
    r.assertions_passed_ = s.assertions_passed_

\* C26: in every reachable state, whenever the pass/fail flag is failed the
\* error count is at least 1.  The converse need not hold: the errors that
\* error() records directly (report without queued assertion, assertions
\* left queued) increment the counter and leave the flag as it is.
C26_FailedImpliesErrors ==
  /\ ~assertions_passed_ => error_count_ >= 1
  /\ ~halted =>
       /\ \A r \in { assertNothingQueued(Self) } : FlagKept(Self, r)
       /\ \A reports \in Scans :
            \A r \in { cycleInternal(Self, reports, FALSE) } : FlagKept(Self, r)

\* A run that goes on after a failed assertion: the flag is failed and the
\* error is counted, with assertions still registered.
C26_Witness ==
  /\ ~halted
  /\ ~assertions_passed_
  /\ error_count_ >= 1
  /\ \E queue \in AllLists(Self) : queue # << >>

\* An error is counted and the flag is still passed, in a run that goes on
\* and in which no assertion was ever created.
C26_ErrorsWithoutFailure ==
  /\ ~halted
  /\ next_id = 0
  /\ assertions_passed_
  /\ error_count_ >= 1

\* ------------------------------------------------------------------ C27

\* A step resets neither the error count nor the pass/fail flag.
Monotone ==
  /\ error_count_' >= error_count_
  /\ ~assertions_passed_ => ~assertions_passed_'

\* C27: the error count starts at 0 and never decreases, and the pass/fail
\* flag starts as passed and, once failed, never returns to passed: no
\* operation resets either.
C27_Monotone ==
  /\ error_count_ = 0 /\ assertions_passed_ = TRUE
  /\ [][Monotone]_vars

\* After the flag failed and the error was counted, the run went on with a
\* further cycle and a further assertion: both are as they were left.
C27_Witness ==
  /\ ~halted
  /\ ~assertions_passed_
  /\ error_count_ = MaxErrors
  /\ cycle_id_ = MaxCycles
  /\ next_id = MaxAssertions
  /\ \A queue \in AllLists(Self) : queue = << >>

\* ------------------------------------------------------------------ C28

\* The outcome of a call: every field but the debug flag, and what happened
\* apart from the descriptions reported.
Outcome(r) ==
  [ fields |-> [f \in DOMAIN r \ {"debug_", "trace"} |-> r[f]],
    events |-> SelectSeq(r.trace, LAMBDA ev : ev.e # "described") ]

\* In a trace of a run with the given debug flag, an assertion is reported
\* (described) if and only if it failed or debug is on, right after its
\* evaluation.
ReportedIff(tr, debug) ==
  /\ \A i \in 1..Len(tr) :
       tr[i].e = "eval" =>
         ((i < Len(tr) /\ tr[i + 1].e = "described" /\ tr[i + 1].id = tr[i].id)
            <=> (~tr[i].ok \/ debug))
  /\ \A i \in 1..Len(tr) :
       tr[i].e = "described" => (i > 1 /\ tr[i - 1].e = "eval")

\* The calls that evaluate assertions, made on orchestrator s.
Evaluating(s) ==
  { cycleInternal(s, reports, FALSE) : reports \in Scans }
    \cup { evaluateAssertionsInternal(s, assertions, NoReport, "none", "direct") :
             assertions \in DirectLists }
    \cup { cycles(s, MaxCycles, Temporaries(preds), fw) :
             preds \in SeqsUpTo(Predicates, 1), fw \in FirmwareRuns }

\* C28: the debug flag affects only what is reported, not the outcome: from
\* the same state, the same operation on the same reports ends with the same
\* error count, pass/fail flag and list contents (and every other field) with
\* debug on and with debug off, so that two runs that differ only in debug
\* agree in every state; an assertion is reported iff it failed or debug is
\* on.
C28_DebugOnlyReports ==
  ~halted =>
    /\ \A on \in { setDebug(Self, TRUE) } :
         \A off \in { setDebug(Self, FALSE) } :
           /\ \A reports \in Scans :
                Outcome(cycleInternal(on, reports, FALSE))
                  = Outcome(cycleInternal(off, reports, FALSE))
           /\ \A assertions \in DirectLists :
                Outcome(evaluateAssertionsInternal(
                          on, assertions, NoReport, "none", "direct"))
                  = Outcome(evaluateAssertionsInternal(
                              off, assertions, NoReport, "none", "direct"))
           /\ \A preds \in SeqsUpTo(Predicates, 1), fw \in FirmwareRuns :
                Outcome(cycles(on, MaxCycles, Temporaries(preds), fw))
                  = Outcome(cycles(off, MaxCycles, Temporaries(preds), fw))
           /\ \A r \in Evaluating(on) : ReportedIff(r.trace, TRUE)
           /\ \A r \in Evaluating(off) : ReportedIff(r.trace, FALSE)

\* Debug is on, a passing and a failing assertion are evaluated: both are
\* reported, and only the failing one would be with debug off; one error is
\* counted either way.
C28_Witness ==
  /\ ~halted
  /\ debug_
  /\ ~abort_on_first_error_
  /\ cycle_id_ > 0
  /\ \E r \in { evaluateAssertionsInternal(
                  Self, Temporaries(<< "pass", "fail" >>), NoReport, "none", "direct") } :
       /\ Count(r.trace, LAMBDA ev : ev.e = "described") = 2
       /\ r.error_count_ = error_count_ + 1
  /\ \E r \in { evaluateAssertionsInternal(
                  setDebug(Self, FALSE), Temporaries(<< "pass", "fail" >>),
                  NoReport, "none", "direct") } :
       /\ Count(r.trace, LAMBDA ev : ev.e = "described") = 1
       /\ r.error_count_ = error_count_ + 1

====
